---- MODULE Spec2Model ----
(***************************************************************************)
(* A model of the rCore teaching kernel (liu-hz18/rCorev3-2021): the       *)
(* physical frame allocator and address spaces (os/src/mm), pipes          *)
(* (os/src/fs/pipe.rs), the easy-fs block cache, on-disk inode layout and  *)
(* inode facade (easy-fs/src), and the kernel hard-link map                *)
(* (os/src/fs/inode.rs).                                                   *)
(*                                                                         *)
(* Each subsystem has its own variables and its own specification          *)
(* (SpecFrame, SpecMM, SpecPipe, ...); an action of one subsystem leaves   *)
(* the variables of the others unchanged.  Sizes that the source fixes     *)
(* (page size, page-table fan-out, block size, ...) are kept as named      *)
(* definitions; where the source value would make exhaustive search        *)
(* impossible the definition carries a scaled value and says so.           *)
(***************************************************************************)
EXTENDS Integers, Sequences, FiniteSets, TLC

VARIABLES
    \* ---- physical memory and the frame allocator (mm/frame_allocator.rs)
    mem,        \* physical frames: ppn -> [0..PAGE_SIZE-1 -> word]
    current,    \* StackFrameAllocator.current
    recycled,   \* StackFrameAllocator.recycled (a Vec used as a stack)
    v,          \* frame_allocator_test's Vec<FrameTracker>: the ppns it holds
    frameOp,    \* the last allocator operation and what it returned
    \* ---- address spaces (mm/memory_set.rs, mm/page_table.rs)
    spaces,     \* address-space slot -> MemorySet record, or NoSpace
    nwrites,    \* number of stores performed so far (bounded)
    ncreated,   \* number of address spaces created so far (bounded)
    mmOp,       \* the last address-space operation
    \* ---- one pipe and the processes using it (fs/pipe.rs, syscall/fs.rs)
    ring,       \* the PipeRingBuffer: arr, head, tail, status
    alive,      \* process -> whether it exists
    rfd,        \* process -> number of its descriptors of the read end
    wfd,        \* process -> number of its descriptors of the write end
    call,       \* process -> its read or write call in progress (suspended), if any
    nwritten,   \* number of bytes accepted by writes so far
    got,        \* the bytes readers have taken out of the pipe, in order
    pipeOp,     \* the last pipe operation and what it returned
    \* ---- the block cache over the block device (easy-fs/block_cache.rs)
    dev,        \* the device: block id -> block content
    queue,      \* BlockCacheManager.queue: entries [id, cache, modified, strong]
    plain,      \* the reference: a plain map block id -> content of the last modify
    cacheOp,    \* the last cache operation and what it returned
    \* ---- easy-fs files (easy-fs/layout.rs, vfs.rs, efs.rs, bitmap.rs)
    inodes,     \* file -> its DiskInode: size, direct, indirect1, indirect2
    fsBlocks,   \* block id -> the BLOCK_SZ bytes of the block
    fsBitmap,   \* the data bitmap: the set of its set bits
    fsOk,       \* FALSE once a file-system call has panicked
    nfsops,     \* number of write_at and clear calls so far (bounded)
    written,    \* file -> the byte last written at each position, 0 if none
    fsOp,       \* the last file operation and what it returned
    \* ---- the hard-link map (os/src/fs/inode.rs)
    linkMap,    \* HARD_LINK_MAP: path -> the OSInode it holds, or NoEntry
    osInodes,   \* the OSInodes made by create: [nlink, inode], by identity
    nlinks,     \* the shared LinkNumber cells: cell -> count
    rootDir,    \* the names in the root directory
    fileSize,   \* inode -> whether the file holds data (its size, at most 1)
    linkOk,     \* FALSE once open_file has panicked
    linkOp,     \* the last operation on the map and what it returned
    \* ---- mailboxes (os/src/fs/mail_box.rs, syscall/fs.rs)
    mail_box,   \* process -> its MailBox: size and packets, or NoMailBox
    mailOp,     \* the last mailbox operation and what it returned
    \* ---- descriptor tables (os/src/task/task.rs, syscall/fs.rs)
    fd_table,   \* process -> its fd_table: per slot a file object or NoFile; <<>> if no process
    fdLive,     \* the processes that exist
    fileRefs,   \* file object -> its Arc strong count (0: not allocated or dropped)
    nfiles,     \* number of file objects created so far
    nfdops,     \* number of descriptor operations so far (bounded)
    fdOp,       \* the last descriptor operation and what it returned
    \* ---- processes and waitpid (os/src/task/task.rs, syscall/process.rs)
    children,   \* process -> TaskControlBlockInner.children: the pids, in order
    task_status,\* process -> Ready, Zombie, or NoTask if there is no such process
    exit_code,  \* process -> TaskControlBlockInner.exit_code
    npids,      \* number of pids allocated so far
    waitOp,     \* the last waitpid call and what it returned
    \* ---- user buffers of system calls (os/src/mm/page_table.rs, syscall/fs.rs)
    bufPt,      \* the caller's page table as translate sees it: vpn -> entry, or NoPte
    bufOk,      \* FALSE once the kernel has panicked in a buffer system call
    bufOp,      \* the last buffer system call and what it did
    \* ---- processes and the ready queue (os/src/task/manager.rs, processor.rs, task.rs)
    sched_status,\* pid -> "none" (pid not allocated), "Ready", "Running" or "Zombie"
    ready_queue,\* TaskManager.ready_queue, front first
    proc_current,\* ProcessorInner.current: the pid on the CPU, or NoPid in the idle loop
    task_stride,\* pid -> task_stride
    task_priority,\* pid -> task_priority
    dispatched, \* the dispatches so far, in order: <<pid, priority at the dispatch>>
    schedOk,    \* FALSE once the idle loop has panicked for want of a task
    schedOp,    \* the last scheduling step and the state before it
    \* ---- the data bitmap and the disk layout (easy-fs/bitmap.rs, efs.rs)
    efs,        \* the areas EasyFileSystem::create laid out, or NoEfs before create
    data_bitmap,\* the blocks of the data bitmap, each a sequence of words
    bmOk,       \* FALSE once alloc_data or dealloc_data has panicked
    bmOp,       \* the last bitmap operation and the bits set before it
    \* ---- locks at the suspension points (syscall/fs.rs, process.rs, fs/pipe.rs, fs/stdio.rs)
    lkPc,       \* process -> the statement of its system call it executes next; user in user mode
    lkLeft,     \* process -> bytes of its buffer not yet transferred
    lkRing,     \* bytes in the ring buffer of the pipe
    lkWriteOpen,\* whether a write end of the pipe is open
    lkOwner,    \* lock -> the process that owns it, or NoPid
    lkCur,      \* the process on the CPU, or NoPid in the idle loop
    lkQueue,    \* the ready queue
    lkStatus,   \* process -> Ready, Running, Zombie or Reaped
    lkHang,     \* TRUE once an acquire spins on a lock that has an owner
    lkOp,       \* the last step and the locks its process held when it began
    \* ---- cache entries held during the file-system operations (easy-fs vfs.rs, layout.rs)
    hdTrace,    \* the get_block_cache calls and drops the operation under way has still to make
    hdHeld,     \* the blocks whose entries are held, outermost first
    hdRootSize, \* size in bytes of the root directory
    hdFileSize, \* size in bytes of the file
    hdHalt,     \* TRUE once get_block_cache panicked with Run out of BlockCache
    hdOp        \* the operation under way or last finished

frameVars == <<mem, current, recycled, v, frameOp>>
mmVars    == <<spaces, nwrites, ncreated, mmOp>>
pipeVars  == <<ring, alive, rfd, wfd, call, nwritten, got, pipeOp>>
cacheVars == <<dev, queue, plain, cacheOp>>
fsVars    == <<inodes, fsBlocks, fsBitmap, fsOk, nfsops, written, fsOp>>
linkVars  == <<linkMap, osInodes, nlinks, rootDir, fileSize, linkOk, linkOp>>
mailVars  == <<mail_box, mailOp>>
fdVars    == <<fd_table, fdLive, fileRefs, nfiles, nfdops, fdOp>>
waitVars  == <<children, task_status, exit_code, npids, waitOp>>
bufVars   == <<bufPt, bufOk, bufOp>>
schedVars == <<sched_status, ready_queue, proc_current, task_stride, task_priority, dispatched, schedOk, schedOp>>
bitmapVars == <<efs, data_bitmap, bmOk, bmOp>>
lockVars == <<lkPc, lkLeft, lkRing, lkWriteOpen, lkOwner, lkCur, lkQueue, lkStatus, lkHang, lkOp>>
holdVars == <<hdTrace, hdHeld, hdRootSize, hdFileSize, hdHalt, hdOp>>

\* What the actions of each part leave unchanged.
exceptFrame == <<mmVars, pipeVars, cacheVars, fsVars, linkVars, mailVars, fdVars, waitVars, bufVars, schedVars, bitmapVars, lockVars, holdVars>>
exceptMM    == <<v, frameOp, pipeVars, cacheVars, fsVars, linkVars, mailVars, fdVars, waitVars, bufVars, schedVars, bitmapVars, lockVars, holdVars>>
exceptPipe  == <<frameVars, mmVars, cacheVars, fsVars, linkVars, mailVars, fdVars, waitVars, bufVars, schedVars, bitmapVars, lockVars, holdVars>>
exceptCache == <<frameVars, mmVars, pipeVars, fsVars, linkVars, mailVars, fdVars, waitVars, bufVars, schedVars, bitmapVars, lockVars, holdVars>>
exceptFS    == <<frameVars, mmVars, pipeVars, cacheVars, linkVars, mailVars, fdVars, waitVars, bufVars, schedVars, bitmapVars, lockVars, holdVars>>
exceptLink  == <<frameVars, mmVars, pipeVars, cacheVars, fsVars, mailVars, fdVars, waitVars, bufVars, schedVars, bitmapVars, lockVars, holdVars>>
exceptMail  == <<frameVars, mmVars, pipeVars, cacheVars, fsVars, linkVars, fdVars, waitVars, bufVars, schedVars, bitmapVars, lockVars, holdVars>>
exceptFd    == <<frameVars, mmVars, pipeVars, cacheVars, fsVars, linkVars, mailVars, waitVars, bufVars, schedVars, bitmapVars, lockVars, holdVars>>
exceptWait  == <<frameVars, mmVars, pipeVars, cacheVars, fsVars, linkVars, mailVars, fdVars, bufVars, schedVars, bitmapVars, lockVars, holdVars>>
exceptBuf   == <<frameVars, mmVars, pipeVars, cacheVars, fsVars, linkVars, mailVars, fdVars, waitVars, schedVars, bitmapVars, lockVars, holdVars>>
exceptSched == <<frameVars, mmVars, pipeVars, cacheVars, fsVars, linkVars, mailVars, fdVars, waitVars, bufVars, bitmapVars, lockVars, holdVars>>
exceptBitmap == <<frameVars, mmVars, pipeVars, cacheVars, fsVars, linkVars, mailVars, fdVars, waitVars, bufVars, schedVars, lockVars, holdVars>>
exceptLock == <<frameVars, mmVars, pipeVars, cacheVars, fsVars, linkVars, mailVars, fdVars, waitVars, bufVars, schedVars, bitmapVars, holdVars>>
exceptHold == <<frameVars, mmVars, pipeVars, cacheVars, fsVars, linkVars, mailVars, fdVars, waitVars, bufVars, schedVars, bitmapVars, lockVars>>

-----------------------------------------------------------------------------
(* Helpers on sequences *)

Last(s) == s[Len(s)]
Front(s) == SubSeq(s, 1, Len(s) - 1)
Range(s) == {s[i] : i \in 1..Len(s)}
NoDup(s) == \A i, j \in 1..Len(s) : i # j => s[i] # s[j]
Min2(a, b) == IF a < b THEN a ELSE b
Max2(a, b) == IF a > b THEN a ELSE b
\* The element of a one-element set: The({e(x) : x \in {d}}) is e with x bound
\* to the value of d.
The(S) == CHOOSE x \in S : TRUE
RemoveAt(s, i) == SubSeq(s, 1, i - 1) \o SubSeq(s, i + 1, Len(s))

-----------------------------------------------------------------------------
(*                Physical frames and the frame allocator                  *)

\* Words per physical frame.  The source has 4096 bytes per frame
\* (config.rs PAGE_SIZE = 0x1000); the model keeps 2 words per frame.
PAGE_SIZE == 2
\* Number of frames the allocator manages: [ekernel.ceil(), MEMORY_END.floor())
NFrames == 20
\* Largest number of frames frame_allocator_test's vector holds at once.
MaxHeld == 2
\* First frame after the kernel image (ekernel.ceil()).
FRAME_BASE == 2
FRAME_END == FRAME_BASE + NFrames
Frames == FRAME_BASE..(FRAME_END - 1)
\* Largest value a store writes into a word of a data page.
MaxByte == 1
\* Content of RAM that was never zeroed.
GARBAGE == 7
NoFrame == -1

ZeroPage == [i \in 0..(PAGE_SIZE - 1) |-> 0]

\* StackFrameAllocator::alloc without the pop: the entry stays on the stack.
StackAllocNoPop(cur, rec) ==
    IF Len(rec) > 0
    THEN [current |-> cur, recycled |-> rec, ppn |-> Last(rec)]
    ELSE IF cur = FRAME_END
         THEN [current |-> cur, recycled |-> rec, ppn |-> NoFrame]
         ELSE [current |-> cur + 1, recycled |-> rec, ppn |-> cur]

\* StackFrameAllocator::alloc: pop a recycled frame, else take `current`.
StackAlloc(cur, rec) ==
    IF Len(rec) > 0
    THEN [current |-> cur, recycled |-> Front(rec), ppn |-> Last(rec)]
    ELSE IF cur = FRAME_END
         THEN [current |-> cur, recycled |-> rec, ppn |-> NoFrame]
         ELSE [current |-> cur + 1, recycled |-> rec, ppn |-> cur]

\* FrameTracker::new without the page cleaning.
FrameTrackerNewDirty(m, ppn) == m

\* FrameTracker::new: every byte of the frame is set to 0.
FrameTrackerNew(m, ppn) == [m EXCEPT ![ppn] = ZeroPage]

\* The heap threaded through an operation: physical memory, the allocator,
\* whether the kernel is still running (ok = FALSE after a panic), and the
\* frame the last frame_alloc returned.
Heap(m, cur, rec) ==
    [mem |-> m, current |-> cur, recycled |-> rec, ok |-> TRUE, ppn |-> NoFrame]

\* frame_alloc: alloc().map(FrameTracker::new); ppn = NoFrame stands for None.
frame_alloc(h) ==
    The({ IF r.ppn = NoFrame
          THEN [h EXCEPT !.ppn = NoFrame]
          ELSE [mem |-> FrameTrackerNew(h.mem, r.ppn), current |-> r.current,
                recycled |-> r.recycled, ok |-> h.ok, ppn |-> r.ppn]
          : r \in {StackAlloc(h.current, h.recycled)} })

\* frame_alloc().unwrap(): a failed allocation panics.
frame_alloc_unwrap(h) ==
    The({ IF h1.ppn = NoFrame THEN [h1 EXCEPT !.ok = FALSE] ELSE h1
          : h1 \in {frame_alloc(h)} })

\* StackFrameAllocator::dealloc (reached from FrameTracker::drop): panics when
\* ppn was never allocated or is already recycled, else pushes it.
frame_dealloc(h, ppn) ==
    IF ppn >= h.current \/ ppn \in Range(h.recycled)
    THEN [h EXCEPT !.ok = FALSE]
    ELSE [h EXCEPT !.recycled = Append(h.recycled, ppn)]

\* Dropping a sequence of FrameTrackers in order.
RECURSIVE DropTrackers(_, _)
DropTrackers(h, ppns) ==
    IF Len(ppns) = 0 THEN h
    ELSE DropTrackers(frame_dealloc(h, ppns[1]), Tail(ppns))

InitFrame ==
    /\ mem = [f \in Frames |-> [i \in 0..(PAGE_SIZE - 1) |-> GARBAGE]]
    /\ current = FRAME_BASE
    /\ recycled = <<>>
    /\ v = <<>>
    /\ frameOp = [op |-> "none"]

\* frame_allocator_test: v.push(frame_alloc().unwrap()); a None is recorded.
TestAlloc ==
    \E h \in {frame_alloc(Heap(mem, current, recycled))} :
        /\ Len(v) < MaxHeld
        /\ mem' = h.mem
        /\ current' = h.current
        /\ recycled' = h.recycled
        /\ v' = IF h.ppn = NoFrame THEN v ELSE Append(v, h.ppn)
        /\ frameOp' = [op |-> "alloc", ppn |-> h.ppn, reused |-> Len(recycled) > 0,
                       wasDirty |-> (h.ppn # NoFrame /\ mem[h.ppn] # ZeroPage),
                       heldBefore |-> Range(v)]

\* One FrameTracker of v is dropped (v.clear() and drop(v) drop them all, one
\* after the other).
TestDrop(i) ==
    \E h \in {frame_dealloc(Heap(mem, current, recycled), v[i])} :
        /\ h.ok
        /\ recycled' = h.recycled
        /\ v' = RemoveAt(v, i)
        /\ frameOp' = [op |-> "drop"]
        /\ UNCHANGED <<mem, current>>

\* The owner of a frame stores into it (ppn.get_bytes_array()[off] = b).
TestWrite(i, off, b) ==
    /\ mem[v[i]][off] # b
    /\ mem' = [mem EXCEPT ![v[i]][off] = b]
    /\ frameOp' = [op |-> "write"]
    /\ UNCHANGED <<current, recycled, v>>

NextFrame ==
    \/ TestAlloc /\ UNCHANGED exceptFrame
    \/ \E i \in 1..Len(v) : TestDrop(i) /\ UNCHANGED exceptFrame
    \/ \E i \in 1..Len(v), off \in 0..(PAGE_SIZE - 1), b \in 1..MaxByte :
          TestWrite(i, off, b) /\ UNCHANGED exceptFrame

-----------------------------------------------------------------------------
(*                Page tables (mm/page_table.rs)                           *)

\* PTEFlags bits.
PTE_V == 1
PTE_R == 2
PTE_W == 4
PTE_X == 8
PTE_U == 16

\* Entries per page-table node.  The source has 512 (9 index bits per level);
\* the model keeps 2, so that a virtual page number has three binary digits.
PT_ENTRIES == 2
NVpn == PT_ENTRIES * PT_ENTRIES * PT_ENTRIES
\* VirtAddr::from(TRAMPOLINE).into(): the highest virtual page.
TRAMPOLINE_VPN == NVpn - 1
\* TRAP_CONTEXT = TRAMPOLINE - PAGE_SIZE: the second highest virtual page.
TRAP_CONTEXT_VPN == TRAMPOLINE_VPN - 1
\* PhysAddr::from(strampoline).into(): a frame of the kernel image.
STRAMPOLINE_PPN == 1
\* USER_STACK_SIZE / PAGE_SIZE: the user stack is one page.
USER_STACK_PAGES == 1
NoPte == -1
NoSpace == [none |-> TRUE]

HasFlag(bits, f) == (bits \div f) % 2 = 1

RECURSIVE BitOrFrom(_, _, _)
BitOrFrom(a, b, bit) ==
    IF bit > 128 THEN 0
    ELSE (IF HasFlag(a, bit) \/ HasFlag(b, bit) THEN bit ELSE 0) + BitOrFrom(a, b, 2 * bit)
BitOr(a, b) == BitOrFrom(a, b, 1)

\* PageTableEntry::new: ppn << 10 | flags.
PteNew(ppn, flags) == ppn * 1024 + flags
\* PageTableEntry::ppn: bits >> 10 (the 44-bit mask keeps every frame number
\* of the model).
PtePpn(bits) == bits \div 1024
PteFlags(bits) == bits % 256
IsValid(bits) == HasFlag(PteFlags(bits), PTE_V)

\* VirtPageNum::indexes: the three per-level indexes, high to low.
Indexes(vpn) ==
    << (vpn \div (PT_ENTRIES * PT_ENTRIES)) % PT_ENTRIES,
       (vpn \div PT_ENTRIES) % PT_ENTRIES,
       vpn % PT_ENTRIES >>

\* PageTable::new: one fresh frame for the root.
PageTableNew(h) ==
    The({ [h |-> h1, pt |-> [root_ppn |-> h1.ppn, frames |-> <<h1.ppn>>]]
          : h1 \in {frame_alloc_unwrap(h)} })

\* One interior level of find_pte_create: w = [h, frames, ppn].  An invalid
\* entry gets a fresh frame, which joins the page table's frames.
WalkCreate(w, idx) ==
    IF ~w.h.ok THEN w
    ELSE IF IsValid(w.h.mem[w.ppn][idx])
         THEN [w EXCEPT !.ppn = PtePpn(w.h.mem[w.ppn][idx])]
         ELSE The({ IF ~h1.ok THEN [w EXCEPT !.h = h1]
                    ELSE [h |-> [h1 EXCEPT !.mem[w.ppn][idx] = PteNew(h1.ppn, PTE_V)],
                          frames |-> Append(w.frames, h1.ppn),
                          ppn |-> h1.ppn]
                    : h1 \in {frame_alloc_unwrap(w.h)} })

\* PageTable::find_pte_create: the node and index of the leaf entry.
find_pte_create(h, pt, vpn) ==
    The({ [h |-> w2.h, frames |-> w2.frames, ppn |-> w2.ppn, idx |-> Indexes(vpn)[3]]
          : w2 \in { WalkCreate(w1, Indexes(vpn)[2])
                     : w1 \in {WalkCreate([h |-> h, frames |-> pt.frames, ppn |-> pt.root_ppn],
                                          Indexes(vpn)[1])} } })

\* PageTable::find_pte: the leaf entry, or NoPte when an interior entry is
\* invalid.  The leaf itself may be invalid.
find_pte(m, root, vpn) ==
    The({ IF ~IsValid(p1) THEN NoPte
          ELSE The({ IF ~IsValid(p2) THEN NoPte ELSE m[PtePpn(p2)][Indexes(vpn)[3]]
                     : p2 \in {m[PtePpn(p1)][Indexes(vpn)[2]]} })
          : p1 \in {m[root][Indexes(vpn)[1]]} })

\* PageTable::translate
translate(m, pt, vpn) == find_pte(m, pt.root_ppn, vpn)

\* PageTable::map: the leaf must be invalid; it becomes (ppn, flags | V).
PageTableMap(h, pt, vpn, ppn, flags) ==
    The({ IF ~l.h.ok THEN [h |-> l.h, pt |-> pt]
          ELSE IF IsValid(l.h.mem[l.ppn][l.idx])
               THEN [h |-> [l.h EXCEPT !.ok = FALSE], pt |-> pt]
               ELSE [h |-> [l.h EXCEPT !.mem[l.ppn][l.idx] = PteNew(ppn, BitOr(flags, PTE_V))],
                     pt |-> [pt EXCEPT !.frames = l.frames]]
          : l \in {find_pte_create(h, pt, vpn)} })

-----------------------------------------------------------------------------
(*                Address spaces (mm/memory_set.rs)                        *)

\* Number of address-space slots.
MaxSpaces == 2
\* Number of stores the model performs.
MaxWrites == 1
\* Number of address spaces the model creates; the operations on regions
\* count as well.
MaxCreated == 3
\* Largest number of pages of a loadable segment.
MaxSegPages == 2
SpaceIds == 1..MaxSpaces
EmptyMap == [x \in {} |-> 0]

\* MapArea::new / MapArea::from_another: a Framed area with no frames yet.
MapAreaNew(start_vpn, end_vpn, perm) ==
    [start |-> start_vpn, end |-> end_vpn, map_type |-> "Framed",
     map_perm |-> perm, data_frames |-> EmptyMap]
MapAreaFromAnother(another) ==
    [start |-> another.start, end |-> another.end, map_type |-> another.map_type,
     map_perm |-> another.map_perm, data_frames |-> EmptyMap]

\* MapArea::map_one for a Framed area: x = [h, pt, area].
map_one(x, vpn) ==
    IF ~x.h.ok THEN x
    ELSE The({ IF ~h1.ok THEN [x EXCEPT !.h = h1]
               ELSE The({ [h |-> r.h, pt |-> r.pt,
                           area |-> [x.area EXCEPT !.data_frames = (vpn :> h1.ppn) @@ @]]
                          : r \in {PageTableMap(h1, x.pt, vpn, h1.ppn, x.area.map_perm)} })
               : h1 \in {frame_alloc_unwrap(x.h)} })

\* MapArea::map: map_one for every vpn of the range.
RECURSIVE MapAreaMap(_, _)
MapAreaMap(x, vpn) ==
    IF vpn >= x.area.end THEN x ELSE MapAreaMap(map_one(x, vpn), vpn + 1)

\* dst[..src.len()].copy_from_slice(src)
WritePrefix(page, src) ==
    [i \in 0..(PAGE_SIZE - 1) |-> IF i < Len(src) THEN src[i + 1] ELSE page[i]]

\* MapArea::copy_data: the data is copied page by page from the area's start.
RECURSIVE copy_data(_, _, _, _, _)
copy_data(h, pt, vpn, data, start) ==
    IF ~h.ok THEN h
    ELSE The({ IF pte = NoPte THEN [h EXCEPT !.ok = FALSE]
               ELSE IF start + PAGE_SIZE >= Len(data)
                    THEN [h EXCEPT !.mem[PtePpn(pte)] =
                            WritePrefix(@, SubSeq(data, start + 1, Min2(Len(data), start + PAGE_SIZE)))]
                    ELSE copy_data([h EXCEPT !.mem[PtePpn(pte)] =
                                      WritePrefix(@, SubSeq(data, start + 1,
                                                            Min2(Len(data), start + PAGE_SIZE)))],
                                   pt, vpn + 1, data, start + PAGE_SIZE)
               : pte \in {translate(h.mem, pt, vpn)} })

\* MemorySet::push: c = [h, ms]; data = <<>> stands for None.
push(c, map_area, data) ==
    The({ [h |-> IF Len(data) > 0 /\ x.h.ok
                 THEN copy_data(x.h, x.pt, map_area.start, data, 0)
                 ELSE x.h,
           ms |-> [page_table |-> x.pt, areas |-> Append(c.ms.areas, x.area)]]
          : x \in {MapAreaMap([h |-> c.h, pt |-> c.ms.page_table, area |-> map_area],
                              map_area.start)} })

\* MemorySet::new_bare followed by map_trampoline.
NewBareWithTrampoline(h) ==
    The({ IF ~n.h.ok THEN [h |-> n.h, ms |-> [page_table |-> n.pt, areas |-> <<>>]]
          ELSE The({ [h |-> r.h, ms |-> [page_table |-> r.pt, areas |-> <<>>]]
                     : r \in {PageTableMap(n.h, n.pt, TRAMPOLINE_VPN, STRAMPOLINE_PPN,
                                           BitOr(PTE_R, PTE_X))} })
          : n \in {PageTableNew(h)} })

\* MemorySet::from_elf for an image with one loadable segment seg =
\* [pages, perm, data]: the segment at vpn 0 with the U flag, a guard page,
\* the user stack (R|W|U), and the trap-context page (R|W).
from_elf(h, seg) ==
    The({ IF ~c2.h.ok THEN c2
          ELSE push(c2, MapAreaNew(TRAP_CONTEXT_VPN, TRAMPOLINE_VPN, BitOr(PTE_R, PTE_W)), <<>>)
          : c2 \in { IF ~c1.h.ok THEN c1
                     ELSE push(c1, MapAreaNew(seg.pages + 1, seg.pages + 1 + USER_STACK_PAGES,
                                              BitOr(PTE_R, BitOr(PTE_W, PTE_U))), <<>>)
                     : c1 \in { IF ~c0.h.ok THEN c0
                                ELSE push(c0, MapAreaNew(0, seg.pages, BitOr(PTE_U, seg.perm)),
                                          seg.data)
                                : c0 \in {NewBareWithTrampoline(h)} } } })

\* from_existed_user's copy of one page left out.
CopyPageSkipped(m, dst_ppn, src_ppn) == m

\* dst_ppn.get_bytes_array().copy_from_slice(src_ppn.get_bytes_array())
CopyPage(m, dst_ppn, src_ppn) == [m EXCEPT ![dst_ppn] = m[src_ppn]]

\* The copy loop of from_existed_user over one area's vpns.
RECURSIVE CopyAreaPages(_, _, _, _, _)
CopyAreaPages(h, src, dst, vpn, end) ==
    IF ~h.ok \/ vpn >= end THEN h
    ELSE The({ IF pp[1] = NoPte \/ pp[2] = NoPte
                  \/ PtePpn(pp[1]) \notin Frames \/ PtePpn(pp[2]) \notin Frames
               THEN [h EXCEPT !.ok = FALSE]
               ELSE CopyAreaPages([h EXCEPT !.mem = CopyPage(@, PtePpn(pp[2]), PtePpn(pp[1]))],
                                  src, dst, vpn + 1, end)
               : pp \in {<<translate(h.mem, src.page_table, vpn),
                           translate(h.mem, dst.page_table, vpn)>>} })

\* The loop of from_existed_user over the areas of user_space, from area i.
RECURSIVE CloneAreas(_, _, _)
CloneAreas(c, user_space, i) ==
    IF ~c.h.ok \/ i > Len(user_space.areas) THEN c
    ELSE The({ CloneAreas([h |-> CopyAreaPages(c1.h, user_space, c1.ms,
                                               user_space.areas[i].start,
                                               user_space.areas[i].end),
                           ms |-> c1.ms],
                          user_space, i + 1)
               : c1 \in {push(c, MapAreaFromAnother(user_space.areas[i]), <<>>)} })

\* MemorySet::from_existed_user
from_existed_user(h, user_space) ==
    CloneAreas(NewBareWithTrampoline(h), user_space, 1)

\* The FrameTrackers of a BTreeMap<VirtPageNum, FrameTracker>, in key order.
RECURSIVE TrackersInKeyOrder(_, _)
TrackersInKeyOrder(df, vpn) ==
    IF vpn >= NVpn THEN <<>>
    ELSE (IF vpn \in DOMAIN df THEN <<df[vpn]>> ELSE <<>>) \o TrackersInKeyOrder(df, vpn + 1)

RECURSIVE AreaTrackers(_, _)
AreaTrackers(areas, i) ==
    IF i > Len(areas) THEN <<>>
    ELSE TrackersInKeyOrder(areas[i].data_frames, 0) \o AreaTrackers(areas, i + 1)

\* Every FrameTracker a MemorySet owns, in the order its drop releases them:
\* page_table.frames, then the data frames of each area.
MemorySetTrackers(ms) == ms.page_table.frames \o AreaTrackers(ms.areas, 1)

Live == {s \in SpaceIds : spaces[s] # NoSpace}

\* The virtual pages of an address space that lie in one of its areas and have
\* a frame there (MemorySet::have_mapped).
MappedVpns(ms) ==
    {vpn \in 0..(NVpn - 1) : \E i \in 1..Len(ms.areas) : vpn \in DOMAIN ms.areas[i].data_frames}

\* What a read of each mapped page through the page table returns.
View(m, ms) ==
    [vpn \in MappedVpns(ms) |-> m[PtePpn(translate(m, ms.page_table, vpn))]]

Segments ==
    {[pages |-> n, perm |-> p, data |-> [i \in 1..(n * PAGE_SIZE - 1) |-> 1]] :
        n \in 1..MaxSegPages,
        p \in {BitOr(PTE_R, PTE_X), BitOr(PTE_R, PTE_W)}}

\* A process is created from an executable image (TaskControlBlock::new,
\* exec): MemorySet::from_elf.
FromElf(s, seg) ==
    /\ spaces[s] = NoSpace
    /\ ncreated < MaxCreated
    /\ \E c \in {from_elf(Heap(mem, current, recycled), seg)} :
          /\ c.h.ok
          /\ mem' = c.h.mem /\ current' = c.h.current /\ recycled' = c.h.recycled
          /\ spaces' = [spaces EXCEPT ![s] = c.ms]
    /\ ncreated' = ncreated + 1
    /\ mmOp' = [op |-> "from_elf", s |-> s]
    /\ UNCHANGED <<nwrites>>

\* fork: the child's address space is MemorySet::from_existed_user(parent).
Fork(a, b) ==
    /\ a # b
    /\ spaces[a] # NoSpace
    /\ spaces[b] = NoSpace
    /\ ncreated < MaxCreated
    /\ \E c \in {from_existed_user(Heap(mem, current, recycled), spaces[a])} :
          /\ c.h.ok
          /\ mem' = c.h.mem /\ current' = c.h.current /\ recycled' = c.h.recycled
          /\ spaces' = [spaces EXCEPT ![b] = c.ms]
    /\ ncreated' = ncreated + 1
    /\ mmOp' = [op |-> "fork", a |-> a, b |-> b]
    /\ UNCHANGED <<nwrites>>

\* A store to a mapped, writable page of address space s.
Write(s, vpn, off, b) ==
    /\ spaces[s] # NoSpace
    /\ nwrites < MaxWrites
    /\ vpn \in MappedVpns(spaces[s])
    /\ \E pte \in {translate(mem, spaces[s].page_table, vpn)} :
          /\ pte # NoPte /\ IsValid(pte) /\ HasFlag(PteFlags(pte), PTE_W)
          /\ mem[PtePpn(pte)][off] # b
          /\ mem' = [mem EXCEPT ![PtePpn(pte)][off] = b]
    /\ nwrites' = nwrites + 1
    /\ mmOp' = [op |-> "write", s |-> s, vpn |-> vpn,
                before |-> [t \in Live \ {s} |-> View(mem, spaces[t])]]
    /\ UNCHANGED <<current, recycled, spaces, ncreated>>

\* The address space is dropped with its task control block.
DropSpace(s) ==
    /\ spaces[s] # NoSpace
    /\ \E h \in {DropTrackers(Heap(mem, current, recycled), MemorySetTrackers(spaces[s]))} :
          /\ h.ok
          /\ recycled' = h.recycled
    /\ spaces' = [spaces EXCEPT ![s] = NoSpace]
    /\ mmOp' = [op |-> "drop", s |-> s]
    /\ UNCHANGED <<mem, current, nwrites, ncreated>>

NextMM ==
    \/ \E s \in SpaceIds, seg \in Segments : FromElf(s, seg) /\ UNCHANGED exceptMM
    \/ \E a, b \in SpaceIds : Fork(a, b) /\ UNCHANGED exceptMM
    \/ \E s \in SpaceIds, vpn \in 0..(NVpn - 1), off \in 0..(PAGE_SIZE - 1), b \in 1..MaxByte :
          Write(s, vpn, off, b) /\ UNCHANGED exceptMM
    \/ \E s \in SpaceIds : DropSpace(s) /\ UNCHANGED exceptMM

-----------------------------------------------------------------------------
(* Regions of an address space: the MemorySet operations that add and      *)
(* remove areas (insert_framed_area, remove_area_with_start_vpn, unmap,    *)
(* recycle_data_pages), on the address spaces of the part above.           *)

\* PageTable::unmap: the leaf must be valid; it becomes the empty entry.
PageTableUnmap(h, pt, vpn) ==
    The({ IF ~l.h.ok THEN [h |-> l.h, pt |-> pt]
          ELSE IF ~IsValid(l.h.mem[l.ppn][l.idx])
               THEN [h |-> [l.h EXCEPT !.ok = FALSE], pt |-> pt]
               ELSE [h |-> [l.h EXCEPT !.mem[l.ppn][l.idx] = 0],
                     pt |-> [pt EXCEPT !.frames = l.frames]]
          : l \in {find_pte_create(h, pt, vpn)} })

\* MapArea::unmap_one for a Framed area: x = [h, pt, area].  The FrameTracker
\* removed from data_frames is dropped, then the leaf is cleared.
unmap_one(x, vpn) ==
    IF ~x.h.ok THEN x
    ELSE The({ IF ~h1.ok THEN [x EXCEPT !.h = h1]
               ELSE The({ [h |-> r.h, pt |-> r.pt,
                           area |-> [x.area EXCEPT !.data_frames =
                                       [u \in DOMAIN @ \ {vpn} |-> @[u]]]]
                          : r \in {PageTableUnmap(h1, x.pt, vpn)} })
               : h1 \in { IF vpn \in DOMAIN x.area.data_frames
                          THEN frame_dealloc(x.h, x.area.data_frames[vpn])
                          ELSE x.h } })

\* MapArea::unmap: unmap_one for every vpn of the range.
RECURSIVE MapAreaUnmap(_, _)
MapAreaUnmap(x, vpn) ==
    IF vpn >= x.area.end THEN x ELSE MapAreaUnmap(unmap_one(x, vpn), vpn + 1)

\* MemorySet::insert_framed_area: c = [h, ms]
insert_framed_area(c, start_vpn, end_vpn, permission) ==
    push(c, MapAreaNew(start_vpn, end_vpn, permission), <<>>)

\* MemorySet::remove_area_with_start_vpn: the first area that starts at
\* start_vpn is unmapped and removed.
remove_area_with_start_vpn(c, start_vpn) ==
    IF \A i \in 1..Len(c.ms.areas) : c.ms.areas[i].start # start_vpn THEN c
    ELSE The({ The({ [h |-> DropTrackers(x.h, TrackersInKeyOrder(x.area.data_frames, 0)),
                      ms |-> [page_table |-> x.pt, areas |-> RemoveAt(c.ms.areas, idx)]]
                     : x \in {MapAreaUnmap([h |-> c.h, pt |-> c.ms.page_table,
                                            area |-> c.ms.areas[idx]], start_vpn)} })
               : idx \in {CHOOSE i \in 1..Len(c.ms.areas) :
                             /\ c.ms.areas[i].start = start_vpn
                             /\ \A j \in 1..(i - 1) : c.ms.areas[j].start # start_vpn} })

\* MemorySet::unmap: every vpn of the range is unmapped in each area that has
\* a frame for it; the loop is at page vpn, area i.
RECURSIVE unmap(_, _, _, _)
unmap(c, vpn, end_vpn, i) ==
    IF ~c.h.ok \/ vpn >= end_vpn THEN c
    ELSE IF i > Len(c.ms.areas) THEN unmap(c, vpn + 1, end_vpn, 1)
    ELSE IF vpn \notin DOMAIN c.ms.areas[i].data_frames THEN unmap(c, vpn, end_vpn, i + 1)
    ELSE The({ unmap([h |-> x.h,
                      ms |-> [page_table |-> x.pt,
                              areas |-> [c.ms.areas EXCEPT ![i] = x.area]]],
                     vpn, end_vpn, i + 1)
               : x \in {unmap_one([h |-> c.h, pt |-> c.ms.page_table,
                                   area |-> c.ms.areas[i]], vpn)} })

\* MemorySet::recycle_data_pages: areas.clear() drops every area and with it
\* the FrameTrackers of its data_frames; the page table is not touched.
recycle_data_pages(c) ==
    [h |-> DropTrackers(c.h, AreaTrackers(c.ms.areas, 1)),
     ms |-> [c.ms EXCEPT !.areas = <<>>]]

\* Loadable segments with every kind of flags, the empty set included.
SegmentFlags == {0, PTE_R, BitOr(PTE_R, PTE_W), BitOr(PTE_R, PTE_X)}
AnySegments ==
    {[pages |-> n, perm |-> p, data |-> [i \in 1..(n * PAGE_SIZE - 1) |-> 1]] :
        n \in 1..MaxSegPages, p \in SegmentFlags}

\* The outcome c of a MemorySet operation on address space s becomes the state.
ASResult(name, s, c) ==
    /\ c.h.ok
    /\ mem' = c.h.mem /\ current' = c.h.current /\ recycled' = c.h.recycled
    /\ spaces' = [spaces EXCEPT ![s] = c.ms]
    /\ mmOp' = [op |-> name, s |-> s]
    /\ ncreated < MaxCreated
    /\ ncreated' = ncreated + 1
    /\ UNCHANGED nwrites

\* A region is added to a live address space (KernelStack::new, sys_mmap).
ASInsert(s, start_vpn, permission) ==
    /\ spaces[s] # NoSpace
    /\ ASResult("insert_framed_area", s,
                insert_framed_area([h |-> Heap(mem, current, recycled), ms |-> spaces[s]],
                                   start_vpn, start_vpn + 1, permission))

\* The region that starts at start_vpn is removed (KernelStack::drop).
ASRemove(s, start_vpn) ==
    /\ spaces[s] # NoSpace
    /\ \E i \in 1..Len(spaces[s].areas) : spaces[s].areas[i].start = start_vpn
    /\ ASResult("remove_area_with_start_vpn", s,
                remove_area_with_start_vpn([h |-> Heap(mem, current, recycled),
                                            ms |-> spaces[s]], start_vpn))

\* The pages start_vpn .. end_vpn - 1 are unmapped (sys_munmap).
ASUnmap(s, start_vpn, end_vpn) ==
    /\ spaces[s] # NoSpace
    /\ \E vpn \in start_vpn..(end_vpn - 1) : vpn \in MappedVpns(spaces[s])
    /\ ASResult("unmap", s,
                unmap([h |-> Heap(mem, current, recycled), ms |-> spaces[s]],
                      start_vpn, end_vpn, 1))

\* The process exits: its data pages are released, its page table is kept.
ASRecycle(s) ==
    /\ spaces[s] # NoSpace
    /\ spaces[s].areas # <<>>
    /\ ASResult("recycle_data_pages", s,
                recycle_data_pages([h |-> Heap(mem, current, recycled), ms |-> spaces[s]]))

NextAS ==
    \/ \E s \in SpaceIds, seg \in AnySegments : FromElf(s, seg) /\ UNCHANGED exceptMM
    \/ \E a, b \in SpaceIds : Fork(a, b) /\ UNCHANGED exceptMM
    \/ \E s \in SpaceIds, vpn \in 3..(TRAP_CONTEXT_VPN - 1) :
          ASInsert(s, vpn, BitOr(PTE_R, BitOr(PTE_W, PTE_U))) /\ UNCHANGED exceptMM
    \/ \E s \in SpaceIds, vpn \in 0..(TRAP_CONTEXT_VPN - 1) :
          ASRemove(s, vpn) /\ UNCHANGED exceptMM
    \/ \E s \in SpaceIds, vpn \in 0..2 : ASUnmap(s, vpn, vpn + 2) /\ UNCHANGED exceptMM
    \/ \E s \in SpaceIds : ASRecycle(s) /\ UNCHANGED exceptMM
    \/ \E s \in SpaceIds : DropSpace(s) /\ UNCHANGED exceptMM

-----------------------------------------------------------------------------
(* from_elf for an image with several loadable segments, in the order of   *)
(* its program headers.  A segment is [start, pages, perm]; its file data  *)
(* is empty, so every page of it is zero.                                  *)

\* The loop of from_elf over the program headers: l = [c, max_end_vpn].
\* max_end_vpn is assigned the end of each area in turn.
RECURSIVE LoadSegments(_, _, _)
LoadSegments(l, segs, i) ==
    IF ~l.c.h.ok \/ i > Len(segs) THEN l
    ELSE LoadSegments(
            [c |-> push(l.c, MapAreaNew(segs[i].start, segs[i].start + segs[i].pages,
                                        BitOr(PTE_U, segs[i].perm)), <<>>),
             max_end_vpn |-> segs[i].start + segs[i].pages],
            segs, i + 1)

\* MemorySet::from_elf: the segments, then the user stack one guard page
\* above max_end_vpn, then the trap-context page.
from_elf_segments(h, segs) ==
    The({ IF ~c2.h.ok THEN c2
          ELSE push(c2, MapAreaNew(TRAP_CONTEXT_VPN, TRAMPOLINE_VPN, BitOr(PTE_R, PTE_W)), <<>>)
          : c2 \in { IF ~l.c.h.ok THEN l.c
                     ELSE push(l.c, MapAreaNew(l.max_end_vpn + 1,
                                               l.max_end_vpn + 1 + USER_STACK_PAGES,
                                               BitOr(PTE_R, BitOr(PTE_W, PTE_U))), <<>>)
                     : l \in { LoadSegments([c |-> c0, max_end_vpn |-> 0], segs, 1)
                               : c0 \in {NewBareWithTrampoline(h)} } } })

\* One-page segments at the low pages.
ElfSegments ==
    {[start |-> a, pages |-> 1, perm |-> BitOr(PTE_R, PTE_W)] : a \in 0..3}
\* The program headers of an image: one or two segments that do not overlap.
ElfImages ==
    { <<x>> : x \in ElfSegments }
    \cup { im \in { <<x, y>> : x \in ElfSegments, y \in ElfSegments } :
               im[1].start # im[2].start }

\* A process is created from an image (TaskControlBlock::new, exec).
ElfLoad(s, segs) ==
    /\ spaces[s] = NoSpace
    /\ ncreated < MaxCreated
    /\ \E c \in {from_elf_segments(Heap(mem, current, recycled), segs)} :
          /\ c.h.ok
          /\ mem' = c.h.mem /\ current' = c.h.current /\ recycled' = c.h.recycled
          /\ spaces' = [spaces EXCEPT ![s] = c.ms]
    /\ ncreated' = ncreated + 1
    /\ mmOp' = [op |-> "from_elf_segments", s |-> s, segs |-> segs]
    /\ UNCHANGED <<nwrites>>

NextElf ==
    \/ \E s \in SpaceIds, segs \in ElfImages : ElfLoad(s, segs) /\ UNCHANGED exceptMM
    \/ \E s \in SpaceIds : DropSpace(s) /\ UNCHANGED exceptMM

-----------------------------------------------------------------------------
(*                Pipes (fs/pipe.rs, syscall/fs.rs)                        *)

RING_BUFFER_SIZE == 32
\* The processes sharing the pipe: 1 creates it, 2 is its child.
PipeProcs == {1, 2}
\* Number of bytes all writes together may carry.
MaxTotal == 46
\* Buffer lengths of the write and read calls.
WriteLens == {13, RING_BUFFER_SIZE, RING_BUFFER_SIZE + 1}
ReadLens == {13, RING_BUFFER_SIZE}
NoCall == [kind |-> "none"]

\* PipeRingBuffer::new
PipeRingBufferNew ==
    [arr |-> [i \in 0..(RING_BUFFER_SIZE - 1) |-> 0], head |-> 0, tail |-> 0,
     status |-> "EMPTY"]

\* PipeRingBuffer::write_byte
write_byte(rb, byte) ==
    The({ [arr |-> [rb.arr EXCEPT ![rb.tail] = byte], head |-> rb.head, tail |-> t,
           status |-> IF t = rb.head THEN "FULL" ELSE "NORMAL"]
          : t \in {(rb.tail + 1) % RING_BUFFER_SIZE} })

\* read_byte that does not set the status to EMPTY when head meets tail.
read_byte_no_empty(rb) ==
    [rb |-> [arr |-> rb.arr, head |-> (rb.head + 1) % RING_BUFFER_SIZE, tail |-> rb.tail,
             status |-> "NORMAL"],
     c |-> rb.arr[rb.head]]

\* PipeRingBuffer::read_byte: the buffer afterwards and the byte.
read_byte(rb) ==
    The({ [rb |-> [arr |-> rb.arr, head |-> hd, tail |-> rb.tail,
                   status |-> IF hd = rb.tail THEN "EMPTY" ELSE "NORMAL"],
           c |-> rb.arr[rb.head]]
          : hd \in {(rb.head + 1) % RING_BUFFER_SIZE} })

\* PipeRingBuffer::available_read
available_read(rb) ==
    IF rb.status = "EMPTY" THEN 0
    ELSE IF rb.tail > rb.head THEN rb.tail - rb.head
         ELSE rb.tail + RING_BUFFER_SIZE - rb.head

\* PipeRingBuffer::available_write
available_write(rb) ==
    IF rb.status = "FULL" THEN 0 ELSE RING_BUFFER_SIZE - available_read(rb)

\* The strong count of the write end's Arc: one per descriptor, in any
\* process, and one per write call in progress (sys_write clones the file).
WriteStrong ==
    LET Holders == {p \in PipeProcs : wfd[p] > 0}
        Writing == {p \in PipeProcs : call[p].kind = "write"}
    IN Cardinality(Holders) + Cardinality(Writing)

\* all_write_ends_closed that reports closed whatever the count.
all_write_ends_closed_unchecked(strong) == TRUE

\* PipeRingBuffer::all_write_ends_closed: the Weak cannot be upgraded.
all_write_ends_closed(strong) == strong = 0

\* The for loop of Pipe::read with i iterations left: x = [rb, done, buf,
\* exhausted]; buf holds the bytes stored into the user buffer in this run,
\* exhausted records that buf_iter.next() returned None.
RECURSIVE ReadFor(_, _, _)
ReadFor(x, i, len) ==
    IF i = 0 THEN x
    ELSE IF x.done < len
         THEN The({ ReadFor(y, i - 1, len)
                    : y \in { [rb |-> r.rb, done |-> x.done + 1, buf |-> Append(x.buf, r.c),
                               exhausted |-> FALSE]
                              : r \in {read_byte(x.rb)} } })
         ELSE [x EXCEPT !.exhausted = TRUE]

\* Pipe::read from the top of its loop until it returns or suspends.
RECURSIVE PipeRead(_, _, _)
PipeRead(x, len, closed) ==
    IF available_read(x.rb) = 0
    THEN [rb |-> x.rb, done |-> x.done, buf |-> x.buf,
          st |-> IF closed THEN "return" ELSE "suspend"]
    ELSE The({ IF y.exhausted
               THEN [rb |-> y.rb, done |-> y.done, buf |-> y.buf, st |-> "return"]
               ELSE PipeRead(y, len, closed)
               : y \in {ReadFor(x, available_read(x.rb), len)} })

\* The for loop of Pipe::write with i iterations left: x = [rb, done, nw,
\* exhausted].  The byte taken from the user buffer is the number of the byte
\* in the stream of all bytes written, as a u8.
RECURSIVE WriteFor(_, _, _)
WriteFor(x, i, len) ==
    IF i = 0 THEN x
    ELSE IF x.done < len
         THEN The({ WriteFor(y, i - 1, len)
                    : y \in { [rb |-> write_byte(x.rb, (x.nw + 1) % 256),
                               done |-> x.done + 1, nw |-> x.nw + 1, exhausted |-> FALSE] } })
         ELSE [x EXCEPT !.exhausted = TRUE]

\* Pipe::write from the top of its loop until it returns or suspends.
RECURSIVE PipeWrite(_, _)
PipeWrite(x, len) ==
    IF available_write(x.rb) = 0
    THEN [rb |-> x.rb, done |-> x.done, nw |-> x.nw, st |-> "suspend"]
    ELSE The({ IF y.exhausted
               THEN [rb |-> y.rb, done |-> y.done, nw |-> y.nw, st |-> "return"]
               ELSE PipeWrite(y, len)
               : y \in {WriteFor(x, available_write(x.rb), len)} })

\* One run of a read call of process p, from the state x of the call, until it
\* returns or calls suspend_current_and_run_next.
ReadRun(p, x, len, suspended) ==
    \E x0 \in {x} : \E r \in {PipeRead(x0, len, all_write_ends_closed(WriteStrong))} :
        /\ ring' = r.rb
        /\ got' = got \o r.buf
        /\ call' = [call EXCEPT ![p] =
                      IF r.st = "return" THEN NoCall
                      ELSE [kind |-> "read", len |-> len, done |-> r.done]]
        /\ pipeOp' = IF r.st = "return"
                     THEN [op |-> "read", p |-> p, len |-> len, ret |-> r.done,
                           closed |-> WriteStrong = 0,
                           suspended |-> suspended]
                     ELSE [op |-> "suspend", p |-> p]
        /\ UNCHANGED <<alive, rfd, wfd, nwritten>>

\* sys_read on a descriptor of the read end.
SysRead(p, len) ==
    /\ alive[p] /\ rfd[p] > 0 /\ call[p] = NoCall
    /\ ReadRun(p, [rb |-> ring, done |-> 0, buf |-> <<>>, exhausted |-> FALSE], len, FALSE)

\* The scheduler runs a process that suspended in Pipe::read: continue.
ResumeRead(p) ==
    /\ call[p].kind = "read"
    /\ ReadRun(p, [rb |-> ring, done |-> call[p].done, buf |-> <<>>,
                   exhausted |-> FALSE], call[p].len, TRUE)

\* One run of a write call of process p.
WriteRun(p, x, len, startEmpty, suspended) ==
    \E x0 \in {x} : \E r \in {PipeWrite(x0, len)} :
        /\ ring' = r.rb
        /\ nwritten' = r.nw
        /\ call' = [call EXCEPT ![p] =
                      IF r.st = "return" THEN NoCall
                      ELSE [kind |-> "write", len |-> len, done |-> r.done,
                            startEmpty |-> startEmpty]]
        /\ pipeOp' = IF r.st = "return"
                     THEN [op |-> "write", p |-> p, len |-> len, ret |-> r.done,
                           suspended |-> suspended]
                     ELSE [op |-> "suspend", p |-> p]
        /\ UNCHANGED <<alive, rfd, wfd, got>>

\* sys_write on a descriptor of the write end.
SysWrite(p, len) ==
    /\ alive[p] /\ wfd[p] > 0 /\ call[p] = NoCall
    /\ nwritten + len <= MaxTotal
    /\ WriteRun(p, [rb |-> ring, done |-> 0, nw |-> nwritten, exhausted |-> FALSE], len,
                available_read(ring) = 0, FALSE)

\* The scheduler runs a process that suspended in Pipe::write: continue.
ResumeWrite(p) ==
    /\ call[p].kind = "write"
    /\ WriteRun(p, [rb |-> ring, done |-> call[p].done, nw |-> nwritten,
                    exhausted |-> FALSE], call[p].len, call[p].startEmpty, TRUE)

\* fork: the child gets a copy of the descriptor table; the files are shared.
PipeFork ==
    /\ alive[1] /\ ~alive[2] /\ call[1] = NoCall
    /\ alive' = [alive EXCEPT ![2] = TRUE]
    /\ rfd' = [rfd EXCEPT ![2] = rfd[1]]
    /\ wfd' = [wfd EXCEPT ![2] = wfd[1]]
    /\ pipeOp' = [op |-> "fork"]
    /\ UNCHANGED <<ring, call, nwritten, got>>

\* sys_close of the descriptor of the write end.
CloseWrite(p) ==
    /\ alive[p] /\ wfd[p] > 0 /\ call[p] = NoCall
    /\ wfd' = [wfd EXCEPT ![p] = @ - 1]
    /\ pipeOp' = [op |-> "close", p |-> p]
    /\ UNCHANGED <<ring, alive, rfd, call, nwritten, got>>

\* sys_close of the descriptor of the read end.
CloseRead(p) ==
    /\ alive[p] /\ rfd[p] > 0 /\ call[p] = NoCall
    /\ rfd' = [rfd EXCEPT ![p] = @ - 1]
    /\ pipeOp' = [op |-> "close", p |-> p]
    /\ UNCHANGED <<ring, alive, wfd, call, nwritten, got>>

\* make_pipe, and sys_pipe of process 1 installing both ends.
InitPipe ==
    /\ ring = PipeRingBufferNew
    /\ alive = [p \in PipeProcs |-> p = 1]
    /\ rfd = [p \in PipeProcs |-> IF p = 1 THEN 1 ELSE 0]
    /\ wfd = [p \in PipeProcs |-> IF p = 1 THEN 1 ELSE 0]
    /\ call = [p \in PipeProcs |-> NoCall]
    /\ nwritten = 0
    /\ got = <<>>
    /\ pipeOp = [op |-> "none"]

NextPipe ==
    \/ \E p \in PipeProcs, len \in ReadLens : SysRead(p, len) /\ UNCHANGED exceptPipe
    \/ \E p \in PipeProcs : ResumeRead(p) /\ UNCHANGED exceptPipe
    \/ \E p \in PipeProcs, len \in WriteLens : SysWrite(p, len) /\ UNCHANGED exceptPipe
    \/ \E p \in PipeProcs : ResumeWrite(p) /\ UNCHANGED exceptPipe
    \/ PipeFork /\ UNCHANGED exceptPipe
    \/ \E p \in PipeProcs : CloseWrite(p) /\ UNCHANGED exceptPipe
    \/ \E p \in PipeProcs : CloseRead(p) /\ UNCHANGED exceptPipe

-----------------------------------------------------------------------------
(*                Block cache (easy-fs/block_cache.rs)                     *)

\* Capacity of the cache.  The source has 16; the model keeps 2 so that every
\* order of the queue and every eviction can be enumerated.
BLOCK_CACHE_SIZE == 2
\* Number of blocks of the device.
NBlocks == 3
\* Largest value a modify stores in a block.
MaxVal == 1
\* Largest number of Arc<Mutex<BlockCache>> handles held outside the manager.
MaxHandles == 2
Blocks == 0..(NBlocks - 1)

\* Position of block_id in the queue, 0 if absent (queue.iter().find).
RECURSIVE FindBlock(_, _, _)
FindBlock(q, block_id, i) ==
    IF i > Len(q) THEN 0
    ELSE IF q[i].id = block_id THEN i ELSE FindBlock(q, block_id, i + 1)

\* The head of the queue whoever holds it.
FindHead(q, i) == IF i > Len(q) THEN 0 ELSE i

\* Position of the first entry whose Arc only the queue holds, 0 if none.
RECURSIVE FindUnused(_, _)
FindUnused(q, i) ==
    IF i > Len(q) THEN 0
    ELSE IF q[i].strong = 1 THEN i ELSE FindUnused(q, i + 1)

\* A drop of a BlockCache that forgets the write-back.
BlockCacheDropNoSync(d, e) == d

\* impl Drop for BlockCache: sync() writes the cache to the device iff modified.
BlockCacheDrop(d, e) ==
    IF e.modified THEN [d EXCEPT ![e.id] = e.cache] ELSE d

\* BlockCache::new: the block is read from the device; the queue's Arc and the
\* returned one make the strong count 2.
BlockCacheNew(d, block_id) ==
    [id |-> block_id, cache |-> d[block_id], modified |-> FALSE, strong |-> 2]

\* BlockCacheManager::get_block_cache: [queue, dev, idx, ok]; idx is the
\* position of the entry whose Arc is returned, ok = FALSE is the panic.
get_block_cache(q, d, block_id) ==
    The({ IF hit > 0
          THEN [queue |-> [q EXCEPT ![hit].strong = @ + 1], dev |-> d, idx |-> hit,
                ok |-> TRUE]
          ELSE IF Len(q) = BLOCK_CACHE_SIZE
               THEN The({ IF idx = 0
                          THEN [queue |-> q, dev |-> d, idx |-> 0, ok |-> FALSE]
                          ELSE The({ [queue |-> Append(RemoveAt(q, idx),
                                                       BlockCacheNew(d1, block_id)),
                                      dev |-> d1, idx |-> Len(q), ok |-> TRUE]
                                     : d1 \in {BlockCacheDrop(d, q[idx])} })
                          : idx \in {FindUnused(q, 1)} })
               ELSE [queue |-> Append(q, BlockCacheNew(d, block_id)), dev |-> d,
                     idx |-> Len(q) + 1, ok |-> TRUE]
          : hit \in {FindBlock(q, block_id, 1)} })

\* The handle returned by get_block_cache is dropped.
DropHandle(q, idx) == [q EXCEPT ![idx].strong = @ - 1]

\* BlockCache::read through the entry at idx.
CacheRead(q, idx) == q[idx].cache

\* BlockCache::modify through the entry at idx: get_mut sets modified.
CacheModify(q, idx, val) == [q EXCEPT ![idx].cache = val, ![idx].modified = TRUE]

Handles == LET Extra(i) == queue[i].strong - 1
               RECURSIVE Sum(_)
               Sum(i) == IF i > Len(queue) THEN 0 ELSE Extra(i) + Sum(i + 1)
           IN Sum(1)

\* get_block_cache(b).lock().read(..): the handle lives for the call only.
GetRead(b) ==
    \E g \in {get_block_cache(queue, dev, b)} :
        /\ g.ok
        /\ queue' = DropHandle(g.queue, g.idx)
        /\ dev' = g.dev
        /\ cacheOp' = [op |-> "read", val |-> CacheRead(g.queue, g.idx),
                       expected |-> plain[b], miss |-> FindBlock(queue, b, 1) = 0,
                       full |-> Len(queue) = BLOCK_CACHE_SIZE]
        /\ UNCHANGED plain

\* get_block_cache(b).lock().modify(..): the handle lives for the call only.
GetModify(b, val) ==
    \E g \in {get_block_cache(queue, dev, b)} :
        /\ g.ok
        /\ queue' = DropHandle(CacheModify(g.queue, g.idx, val), g.idx)
        /\ dev' = g.dev
        /\ plain' = [plain EXCEPT ![b] = val]
        /\ cacheOp' = [op |-> "modify"]

\* get_block_cache(b) whose handle the caller keeps.
Acquire(b) ==
    /\ Handles < MaxHandles
    /\ \E g \in {get_block_cache(queue, dev, b)} :
          /\ g.ok
          /\ queue' = g.queue
          /\ dev' = g.dev
    /\ cacheOp' = [op |-> "acquire"]
    /\ UNCHANGED plain

\* A read through a handle the caller kept.
HeldRead(i) ==
    /\ queue[i].strong > 1
    /\ cacheOp' = [op |-> "read", val |-> CacheRead(queue, i),
                   expected |-> plain[queue[i].id], miss |-> FALSE, full |-> FALSE]
    /\ UNCHANGED <<dev, queue, plain>>

\* A modify through a handle the caller kept.
HeldModify(i, val) ==
    /\ queue[i].strong > 1
    /\ queue' = CacheModify(queue, i, val)
    /\ plain' = [plain EXCEPT ![queue[i].id] = val]
    /\ cacheOp' = [op |-> "modify"]
    /\ UNCHANGED dev

\* The caller drops a handle it kept.
Release(i) ==
    /\ queue[i].strong > 1
    /\ queue' = DropHandle(queue, i)
    /\ cacheOp' = [op |-> "release"]
    /\ UNCHANGED <<dev, plain>>

\* BlockCacheManager::new over a device whose blocks hold zeros.
InitCache ==
    /\ dev = [b \in Blocks |-> 0]
    /\ queue = <<>>
    /\ plain = [b \in Blocks |-> 0]
    /\ cacheOp = [op |-> "none"]

NextCache ==
    \/ \E b \in Blocks : GetRead(b) /\ UNCHANGED exceptCache
    \/ \E b \in Blocks, val \in 1..MaxVal : GetModify(b, val) /\ UNCHANGED exceptCache
    \/ \E b \in Blocks : Acquire(b) /\ UNCHANGED exceptCache
    \/ \E i \in 1..Len(queue) : HeldRead(i) /\ UNCHANGED exceptCache
    \/ \E i \in 1..Len(queue), val \in 1..MaxVal : HeldModify(i, val) /\ UNCHANGED exceptCache
    \/ \E i \in 1..Len(queue) : Release(i) /\ UNCHANGED exceptCache

\* get_block_cache on its own, with the queue before it on record and the
\* panic as an outcome: the caller keeps the handle.  Nothing happens once the
\* kernel has halted.
CacheHalted == cacheOp.op = "panic"

GetKeep(b) ==
    /\ ~CacheHalted
    /\ Handles <= MaxHandles
    /\ \E g \in {get_block_cache(queue, dev, b)} :
          IF g.ok
          THEN /\ queue' = g.queue
               /\ dev' = g.dev
               /\ cacheOp' = [op |-> "get", b |-> b, before |-> queue]
          ELSE /\ cacheOp' = [op |-> "panic", b |-> b, before |-> queue]
               /\ UNCHANGED <<queue, dev>>
    /\ UNCHANGED plain

NextEvict ==
    \/ \E b \in Blocks : GetKeep(b) /\ UNCHANGED exceptCache
    \/ \E b \in Blocks, val \in 1..MaxVal :
          ~CacheHalted /\ GetModify(b, val) /\ UNCHANGED exceptCache
    \/ \E i \in 1..Len(queue) : ~CacheHalted /\ Release(i) /\ UNCHANGED exceptCache

-----------------------------------------------------------------------------
(*    easy-fs files (easy-fs/layout.rs, vfs.rs, efs.rs, bitmap.rs)         *)
(*                                                                         *)
(* The file system reaches every block through get_block_cache; C7 shows   *)
(* that view to be a plain map from block id to content, and fsBlocks is   *)
(* that map.  The DiskInodes, which live in the inode area, are kept as    *)
(* records, and the data bitmap as the set of its set bits.                *)

\* Bytes per block.  The source has 512; the model keeps 8, the smallest size
\* with two u32 entries per index block.
BLOCK_SZ == 8
\* The source has 28 direct entries; the model keeps 2.
INODE_DIRECT_COUNT == 2
INODE_INDIRECT1_COUNT == BLOCK_SZ \div 4
INODE_INDIRECT2_COUNT == INODE_INDIRECT1_COUNT * INODE_INDIRECT1_COUNT
DIRECT_BOUND == INODE_DIRECT_COUNT
INDIRECT1_BOUND == DIRECT_BOUND + INODE_INDIRECT1_COUNT
INDIRECT2_BOUND == INDIRECT1_BOUND + INODE_INDIRECT2_COUNT
EFS_MAGIC == 998244353
\* Number of blocks of the data area, and of bits of the data bitmap.
DataAreaBlocks == 14
\* First block of the data area.  The model has no inode or bitmap blocks on the
\* device, so the data area follows the super block.
data_area_start_block == 1
FsBlockIds == 0..(data_area_start_block + DataAreaBlocks - 1)
NoBlock == -1
FsFiles == {1, 2}
\* Largest number of write_at and clear calls in a behaviour.
MaxFsOps == 4
\* The (offset, length) pairs of the write_at and read_at calls.
WriteArgs == {<<0, 9>>, <<0, 0>>, <<16, 0>>, <<13, 24>>, <<30, 9>>, <<40, 24>>}
ReadArgs == {<<0, 30>>, <<13, 30>>, <<13, 0>>, <<16, 30>>, <<30, 30>>, <<40, 30>>,
             <<64, 30>>}

\* A u32 in memory, little endian, and back.
U32Bytes(x) ==
    <<x % 256, (x \div 256) % 256, (x \div 65536) % 256, (x \div 16777216) % 256>>
FromU32Bytes(b) == b[1] + 256 * b[2] + 65536 * b[3] + 16777216 * b[4]

\* IndirectBlock = [u32; BLOCK_SZ / 4]: entry j of a block, and the block with
\* entry j set.
ReadU32(blk, j) == FromU32Bytes(SubSeq(blk, 4 * j + 1, 4 * j + 4))
WriteU32(blk, j, x) ==
    [i \in 1..BLOCK_SZ |->
        IF 4 * j < i /\ i <= 4 * j + 4 THEN U32Bytes(x)[i - 4 * j] ELSE blk[i]]

ZeroBlock == [i \in 1..BLOCK_SZ |-> 0]
\* The super block starts with the magic number and the number of blocks.
SuperBlockBytes ==
    SubSeq(U32Bytes(EFS_MAGIC) \o U32Bytes(data_area_start_block + DataAreaBlocks)
           \o ZeroBlock, 1, BLOCK_SZ)

\* DiskInode::initialize.
DiskInodeInitialize ==
    [size |-> 0, direct |-> [k \in 1..INODE_DIRECT_COUNT |-> 0],
     indirect1 |-> 0, indirect2 |-> 0]

\* DiskInode::_data_blocks.
data_blocks(size) == (size + BLOCK_SZ - 1) \div BLOCK_SZ

\* DiskInode::total_blocks.
total_blocks(size) ==
    The({ db + (IF db > INODE_DIRECT_COUNT THEN 1 ELSE 0)
             + (IF db > INDIRECT1_BOUND
                THEN 1 + ((db - INDIRECT1_BOUND + INODE_INDIRECT1_COUNT - 1)
                          \div INODE_INDIRECT1_COUNT)
                ELSE 0)
          : db \in {data_blocks(size)} })

\* A blocks_num_needed that asks for one block more.
blocks_num_needed_one_more(ino, new_size) ==
    total_blocks(new_size) - total_blocks(ino.size) + 1

\* DiskInode::blocks_num_needed.
blocks_num_needed(ino, new_size) == total_blocks(new_size) - total_blocks(ino.size)

\* Entry j of the index block blk, read through the cache; NoBlock is the panic
\* of a read outside the device or outside the index block.
IndirectEntry(blocks, blk, j) ==
    IF blk \in FsBlockIds /\ j < INODE_INDIRECT1_COUNT
    THEN ReadU32(blocks[blk], j) ELSE NoBlock

\* A get_block_id that takes both indexes of the second level from the
\* quotient.
get_block_id_quotient(ino, inner_id, blocks) ==
    IF inner_id < INODE_DIRECT_COUNT THEN ino.direct[inner_id + 1]
    ELSE IF inner_id < INDIRECT1_BOUND
    THEN IndirectEntry(blocks, ino.indirect1, inner_id - INODE_DIRECT_COUNT)
    ELSE The({ The({ IndirectEntry(blocks, indirect1, last \div INODE_INDIRECT1_COUNT)
                     : indirect1 \in {IndirectEntry(blocks, ino.indirect2,
                                                    last \div INODE_INDIRECT1_COUNT)} })
               : last \in {inner_id - INDIRECT1_BOUND} })

\* DiskInode::get_block_id.
get_block_id(ino, inner_id, blocks) ==
    IF inner_id < INODE_DIRECT_COUNT THEN ino.direct[inner_id + 1]
    ELSE IF inner_id < INDIRECT1_BOUND
    THEN IndirectEntry(blocks, ino.indirect1, inner_id - INODE_DIRECT_COUNT)
    ELSE The({ The({ IndirectEntry(blocks, indirect1, last % INODE_INDIRECT1_COUNT)
                     : indirect1 \in {IndirectEntry(blocks, ino.indirect2,
                                                    last \div INODE_INDIRECT1_COUNT)} })
               : last \in {inner_id - INDIRECT1_BOUND} })

\* The loop of increase_size over the second level: [blocks, n], n being the
\* number of new blocks consumed.
RECURSIVE IncreaseIndirect2(_, _, _, _, _, _, _, _)
IncreaseIndirect2(blocks, n, indirect2, a0, b0, a1, b1, new_blocks) ==
    IF ~(a0 < a1 \/ (a0 = a1 /\ b0 < b1)) THEN [blocks |-> blocks, n |-> n]
    ELSE The({ The({ IncreaseIndirect2(y, nn + 1, indirect2,
                                       IF b0 + 1 = INODE_INDIRECT1_COUNT THEN a0 + 1 ELSE a0,
                                       IF b0 + 1 = INODE_INDIRECT1_COUNT THEN 0 ELSE b0 + 1,
                                       a1, b1, new_blocks)
                     : y \in {[x EXCEPT ![ReadU32(x[indirect2], a0)] =
                                            WriteU32(@, b0, new_blocks[nn + 1])]} })
               : x \in {IF b0 = 0
                        THEN [blocks EXCEPT ![indirect2] = WriteU32(@, a0, new_blocks[n + 1])]
                        ELSE blocks},
                 nn \in {IF b0 = 0 THEN n + 1 ELSE n} })

\* A fill loop that never advances the iterator: every entry gets the same
\* block.
FillIndirectFirst(blk, from, to, new_blocks, n) ==
    [i \in 1..BLOCK_SZ |->
        The({ IF from <= j /\ j < to
              THEN U32Bytes(new_blocks[n + 1])[((i - 1) % 4) + 1]
              ELSE blk[i]
              : j \in {(i - 1) \div 4} })]

\* The entries from..to-1 of an index block set from new_blocks[n+1..].
FillIndirect(blk, from, to, new_blocks, n) ==
    [i \in 1..BLOCK_SZ |->
        The({ IF from <= j /\ j < to
              THEN U32Bytes(new_blocks[n + j - from + 1])[((i - 1) % 4) + 1]
              ELSE blk[i]
              : j \in {(i - 1) \div 4} })]

\* DiskInode::increase_size: [ino, blocks].
DiskInodeIncreaseSize(ino, new_size, new_blocks, blocks) ==
    The({
      The({
        IF total <= INODE_DIRECT_COUNT
        THEN [ino |-> [ino EXCEPT !.size = new_size, !.direct = direct],
              blocks |-> blocks]
        ELSE
        The({
          The({
            IF tot1 <= INODE_INDIRECT1_COUNT
            THEN [ino |-> [ino EXCEPT !.size = new_size, !.direct = direct,
                                      !.indirect1 = indirect1],
                  blocks |-> blk1]
            ELSE
            The({
              The({ [ino |-> [ino EXCEPT !.size = new_size, !.direct = direct,
                                         !.indirect1 = indirect1,
                                         !.indirect2 = indirect2],
                     blocks |-> r.blocks]
                    : r \in {IncreaseIndirect2(blk1, n4, indirect2,
                                 (cur1b - INODE_INDIRECT1_COUNT) \div INODE_INDIRECT1_COUNT,
                                 (cur1b - INODE_INDIRECT1_COUNT) % INODE_INDIRECT1_COUNT,
                                 (tot1 - INODE_INDIRECT1_COUNT) \div INODE_INDIRECT1_COUNT,
                                 (tot1 - INODE_INDIRECT1_COUNT) % INODE_INDIRECT1_COUNT,
                                 new_blocks)} })
              : indirect2 \in {IF cur1b = INODE_INDIRECT1_COUNT
                               THEN new_blocks[n3 + 1] ELSE ino.indirect2},
                n4 \in {IF cur1b = INODE_INDIRECT1_COUNT THEN n3 + 1 ELSE n3} })
            : blk1 \in {[blocks EXCEPT ![indirect1] =
                            FillIndirect(@, cur1, Min2(tot1, INODE_INDIRECT1_COUNT),
                                         new_blocks, n2)]},
              cur1b \in {Max2(cur1, Min2(tot1, INODE_INDIRECT1_COUNT))},
              n3 \in {n2 + Max2(0, Min2(tot1, INODE_INDIRECT1_COUNT) - cur1)} })
          : indirect1 \in {IF cur0 = INODE_DIRECT_COUNT
                           THEN new_blocks[n1 + 1] ELSE ino.indirect1},
            n2 \in {IF cur0 = INODE_DIRECT_COUNT THEN n1 + 1 ELSE n1},
            cur1 \in {cur0 - INODE_DIRECT_COUNT},
            tot1 \in {total - INODE_DIRECT_COUNT} })
        : direct \in {[k \in 1..INODE_DIRECT_COUNT |->
                         IF current_blocks < k /\ k <= Min2(total, INODE_DIRECT_COUNT)
                         THEN new_blocks[k - current_blocks] ELSE ino.direct[k]]},
          n1 \in {Max2(0, Min2(total, INODE_DIRECT_COUNT) - current_blocks)},
          cur0 \in {Max2(current_blocks, Min2(total, INODE_DIRECT_COUNT))} })
        : current_blocks \in {data_blocks(ino.size)}, total \in {data_blocks(new_size)} })

\* The first n entries of an index block, in order.
Entries(blocks, blk, n) == [j \in 1..n |-> ReadU32(blocks[blk], j - 1)]

\* The loops of clear_size over the second level: for each index block of the
\* second level, its id and then its entries.
RECURSIVE ClearIndirect2(_, _, _, _, _)
ClearIndirect2(blocks, indirect2, i, a1, b1) ==
    IF i < a1
    THEN The({ <<id>> \o Entries(blocks, id, INODE_INDIRECT1_COUNT)
               \o ClearIndirect2(blocks, indirect2, i + 1, a1, b1)
               : id \in {ReadU32(blocks[indirect2], i)} })
    ELSE IF b1 > 0
    THEN The({ <<id>> \o Entries(blocks, id, b1)
               : id \in {ReadU32(blocks[indirect2], a1)} })
    ELSE <<>>

\* DiskInode::clear_size: [ino, v], v being the blocks to give back.
clear_size(ino, blocks) ==
    The({
      IF db <= INODE_DIRECT_COUNT
      THEN [ino |-> [ino EXCEPT !.size = 0, !.direct = direct], v |-> v0]
      ELSE
      The({
        IF db1 <= INODE_INDIRECT1_COUNT
        THEN [ino |-> [ino EXCEPT !.size = 0, !.direct = direct, !.indirect1 = 0],
              v |-> v1]
        ELSE
        The({ [ino |-> [ino EXCEPT !.size = 0, !.direct = direct, !.indirect1 = 0,
                                   !.indirect2 = 0],
               v |-> v1 \o <<ino.indirect2>>
                     \o ClearIndirect2(blocks, ino.indirect2, 0,
                                       db2 \div INODE_INDIRECT1_COUNT,
                                       db2 % INODE_INDIRECT1_COUNT)]
              : db2 \in {db1 - INODE_INDIRECT1_COUNT} })
        : db1 \in {db - INODE_DIRECT_COUNT},
          v1 \in {v0 \o <<ino.indirect1>>
                  \o Entries(blocks, ino.indirect1,
                             Min2(db - INODE_DIRECT_COUNT, INODE_INDIRECT1_COUNT))} })
      : db \in {data_blocks(ino.size)},
        direct \in {[k \in 1..INODE_DIRECT_COUNT |->
                       IF k <= Min2(data_blocks(ino.size), INODE_DIRECT_COUNT)
                       THEN 0 ELSE ino.direct[k]]},
        v0 \in {SubSeq(ino.direct, 1, Min2(data_blocks(ino.size), INODE_DIRECT_COUNT))} })

\* The loop of DiskInode::read_at: [ok, data]; ok = FALSE is the panic of a
\* read outside the device.
RECURSIVE ReadLoop(_, _, _, _, _, _)
ReadLoop(ino, blocks, start, start_block, end, data) ==
    The({ IF id \notin FsBlockIds THEN [ok |-> FALSE, data |-> data]
          ELSE The({ IF end_current_block = end THEN [ok |-> TRUE, data |-> dst]
                     ELSE ReadLoop(ino, blocks, end_current_block, start_block + 1,
                                   end, dst)
                     : dst \in {data \o SubSeq(blocks[id], (start % BLOCK_SZ) + 1,
                                               (start % BLOCK_SZ)
                                               + (end_current_block - start))} })
          : id \in {get_block_id(ino, start_block, blocks)},
            end_current_block \in {Min2(((start \div BLOCK_SZ) + 1) * BLOCK_SZ, end)} })

\* DiskInode::read_at: [ok, data].
DiskInodeReadAt(ino, offset, len, blocks) ==
    The({ IF offset >= end THEN [ok |-> TRUE, data |-> <<>>]
          ELSE ReadLoop(ino, blocks, offset, offset \div BLOCK_SZ, end, <<>>)
          : end \in {Min2(offset + len, ino.size)} })

\* The loop of DiskInode::write_at: [ok, blocks, n].
RECURSIVE WriteLoop(_, _, _, _, _, _, _)
WriteLoop(ino, blocks, start, start_block, end, buf, write_size) ==
    The({ IF id \notin FsBlockIds
          THEN [ok |-> FALSE, blocks |-> blocks, n |-> write_size]
          ELSE The({ IF end_current_block = end
                     THEN [ok |-> TRUE, blocks |-> y, n |-> w]
                     ELSE WriteLoop(ino, y, end_current_block, start_block + 1, end,
                                    buf, w)
                     : y \in {[blocks EXCEPT ![id] =
                                 [i \in 1..BLOCK_SZ |->
                                    IF (start % BLOCK_SZ) < i
                                       /\ i <= (start % BLOCK_SZ)
                                               + (end_current_block - start)
                                    THEN buf[write_size + i - (start % BLOCK_SZ)]
                                    ELSE @[i]]]},
                       w \in {write_size + (end_current_block - start)} })
          : id \in {get_block_id(ino, start_block, blocks)},
            end_current_block \in {Min2(((start \div BLOCK_SZ) + 1) * BLOCK_SZ, end)} })

\* DiskInode::write_at: [ok, blocks, n]; the assertion start <= end panics.
DiskInodeWriteAt(ino, offset, buf, blocks) ==
    The({ IF offset > end THEN [ok |-> FALSE, blocks |-> blocks, n |-> 0]
          ELSE WriteLoop(ino, blocks, offset, offset \div BLOCK_SZ, end, buf, 0)
          : end \in {Min2(offset + Len(buf), ino.size)} })

\* Bitmap::alloc: the lowest clear bit, NoBlock for None.
BitmapAlloc(bm) ==
    IF \A b \in 0..(DataAreaBlocks - 1) : b \in bm THEN NoBlock
    ELSE CHOOSE b \in 0..(DataAreaBlocks - 1) :
            b \notin bm /\ \A c \in 0..(b - 1) : c \in bm

\* A dealloc that leaves the bit set.
BitmapDeallocKeepsBit(bm, bit) == bm

\* Bitmap::dealloc.
BitmapDealloc(bm, bit) == bm \ {bit}

\* An alloc_data that leaves the bit clear.
alloc_data_bit_clear(bm) ==
    The({ IF bit = NoBlock THEN [bitmap |-> bm, id |-> NoBlock, ok |-> FALSE]
          ELSE [bitmap |-> bm, id |-> bit + data_area_start_block, ok |-> TRUE]
          : bit \in {BitmapAlloc(bm)} })

\* EasyFileSystem::alloc_data: [bitmap, id, ok]; the unwrap of None panics.
alloc_data(bm) ==
    The({ IF bit = NoBlock THEN [bitmap |-> bm, id |-> NoBlock, ok |-> FALSE]
          ELSE [bitmap |-> bm \cup {bit}, id |-> bit + data_area_start_block,
                ok |-> TRUE]
          : bit \in {BitmapAlloc(bm)} })

\* The loop of Inode::increase_size: [bitmap, v, ok].
RECURSIVE AllocBlocks(_, _, _)
AllocBlocks(bm, n, vec) ==
    IF n = 0 THEN [bitmap |-> bm, v |-> vec, ok |-> TRUE]
    ELSE The({ IF ~a.ok THEN [bitmap |-> bm, v |-> vec, ok |-> FALSE]
               ELSE AllocBlocks(a.bitmap, n - 1, Append(vec, a.id))
               : a \in {alloc_data(bm)} })

\* Inode::increase_size: [ino, blocks, bitmap, ok].
InodeIncreaseSize(ino, new_size, blocks, bm) ==
    IF new_size < ino.size
    THEN [ino |-> ino, blocks |-> blocks, bitmap |-> bm, ok |-> TRUE]
    ELSE The({ IF ~a.ok
               THEN [ino |-> ino, blocks |-> blocks, bitmap |-> bm, ok |-> FALSE]
               ELSE The({ [ino |-> r.ino, blocks |-> r.blocks, bitmap |-> a.bitmap,
                           ok |-> TRUE]
                          : r \in {DiskInodeIncreaseSize(ino, new_size, a.v, blocks)} })
               : a \in {AllocBlocks(bm, blocks_num_needed(ino, new_size), <<>>)} })

\* EasyFileSystem::dealloc_data: [blocks, bitmap, ok]; the block is zeroed, and
\* the assertion that its bit was set panics otherwise.
dealloc_data(blocks, bm, block_id) ==
    IF block_id \notin FsBlockIds \/ (block_id - data_area_start_block) \notin bm
    THEN [blocks |-> blocks, bitmap |-> bm, ok |-> FALSE]
    ELSE [blocks |-> [blocks EXCEPT ![block_id] = ZeroBlock],
          bitmap |-> BitmapDealloc(bm, block_id - data_area_start_block),
          ok |-> TRUE]

\* The loop of Inode::clear over the blocks clear_size returned.
RECURSIVE DeallocAll(_, _, _)
DeallocAll(d, vec, i) ==
    IF i > Len(vec) \/ ~d.ok THEN d
    ELSE The({ DeallocAll(y, vec, i + 1)
               : y \in {dealloc_data(d.blocks, d.bitmap, vec[i])} })

\* The bytes the k-th call of write_at is given.
WriteBuf(k, len) == [i \in 1..len |-> 1 + ((k + i) % 3)]

FsPanic ==
    /\ fsOk' = FALSE
    /\ fsOp' = [op |-> "panic"]
    /\ UNCHANGED <<inodes, fsBlocks, fsBitmap, nfsops, written>>

\* Inode::write_at.
InodeWriteAt(f, offset, len) ==
    /\ fsOk
    /\ nfsops < MaxFsOps
    /\ \E buf \in {WriteBuf(nfsops, len)} :
       \E g \in {InodeIncreaseSize(inodes[f], offset + len, fsBlocks, fsBitmap)} :
          IF ~g.ok THEN FsPanic
          ELSE \E w \in {DiskInodeWriteAt(g.ino, offset, buf, g.blocks)} :
                  IF ~w.ok THEN FsPanic
                  ELSE /\ inodes' = [inodes EXCEPT ![f] = g.ino]
                       /\ fsBlocks' = w.blocks
                       /\ fsBitmap' = g.bitmap
                       /\ nfsops' = nfsops + 1
                       /\ written' = [written EXCEPT ![f] =
                              [i \in 1..Max2(Len(@), offset + len) |->
                                  IF offset < i /\ i <= offset + len THEN buf[i - offset]
                                  ELSE IF i <= Len(@) THEN @[i] ELSE 0]]
                       /\ fsOp' = [op |-> "write", f |-> f, offset |-> offset,
                                   len |-> len, ret |-> w.n,
                                   prevSize |-> inodes[f].size,
                                   fresh |-> {b + data_area_start_block
                                              : b \in g.bitmap \ fsBitmap}]
                       /\ UNCHANGED fsOk

\* Inode::read_at.
InodeReadAt(f, offset, len) ==
    /\ fsOk
    /\ \E r \in {DiskInodeReadAt(inodes[f], offset, len, fsBlocks)} :
          IF ~r.ok THEN FsPanic
          ELSE /\ fsOp' = [op |-> "read", f |-> f, offset |-> offset, len |-> len,
                           ret |-> Len(r.data), data |-> r.data]
               /\ UNCHANGED <<inodes, fsBlocks, fsBitmap, fsOk, nfsops, written>>

\* Inode::clear.
InodeClear(f) ==
    /\ fsOk
    /\ nfsops < MaxFsOps
    /\ \E c \in {clear_size(inodes[f], fsBlocks)} :
          IF Len(c.v) # total_blocks(inodes[f].size) THEN FsPanic
          ELSE \E d \in {DeallocAll([blocks |-> fsBlocks, bitmap |-> fsBitmap,
                                     ok |-> TRUE], c.v, 1)} :
                  IF ~d.ok THEN FsPanic
                  ELSE /\ inodes' = [inodes EXCEPT ![f] = c.ino]
                       /\ fsBlocks' = d.blocks
                       /\ fsBitmap' = d.bitmap
                       /\ nfsops' = nfsops + 1
                       /\ written' = [written EXCEPT ![f] = <<>>]
                       /\ fsOp' = [op |-> "clear", f |-> f,
                                   prevSize |-> inodes[f].size, freed |-> c.v,
                                   before |-> fsBitmap]
                       /\ UNCHANGED fsOk

\* EasyFileSystem::create zeroes every block and writes the super block; the
\* files are created empty.
InitFS ==
    /\ inodes = [f \in FsFiles |-> DiskInodeInitialize]
    /\ fsBlocks = [b \in FsBlockIds |-> IF b = 0 THEN SuperBlockBytes ELSE ZeroBlock]
    /\ fsBitmap = {}
    /\ fsOk = TRUE
    /\ nfsops = 0
    /\ written = [f \in FsFiles |-> <<>>]
    /\ fsOp = [op |-> "none"]

NextFS ==
    \/ \E f \in FsFiles, a \in WriteArgs : InodeWriteAt(f, a[1], a[2]) /\ UNCHANGED exceptFS
    \/ \E f \in FsFiles, a \in ReadArgs : InodeReadAt(f, a[1], a[2]) /\ UNCHANGED exceptFS
    \/ \E f \in FsFiles : InodeClear(f) /\ UNCHANGED exceptFS

-----------------------------------------------------------------------------
(*               Hard-link map (os/src/fs/inode.rs)                        *)

Paths == {"a", "b", "c"}
\* Largest number of files created in a behaviour.
MaxFiles == 2
\* Largest link count a behaviour reaches.
MaxNlink == 3
\* Largest size a file of this part reaches: a file is empty or not.
MaxFileSize == 1
\* No entry for a path in the map.
NoEntry == 0
\* OpenFlags bits.
CREATE == 512
TRUNC == 1024
\* The flags open is called with: RDONLY, CREATE | WRONLY, TRUNC | WRONLY and
\* CREATE | TRUNC | RDWR.
OpenFlagSets == {0, CREATE + 1, TRUNC + 1, CREATE + TRUNC + 2}

\* The increment of a link count done twice.
BumpNlinkTwice(cells, c) == [cells EXCEPT ![c] = @ + 2]

\* old_inode.inner.lock().nlink.lock().0 += 1
BumpNlink(cells, c) == [cells EXCEPT ![c] = @ + 1]

\* A decrement of the link count that is left out.
DropNlinkSkipped(cells, c) == cells

\* inner_nlink.0 -= 1
DropNlink(cells, c) == [cells EXCEPT ![c] = @ - 1]

\* link: [map, cells, ret].
link(map, cells, old_path, new_path) ==
    IF old_path = new_path THEN [map |-> map, cells |-> cells, ret |-> -1]
    ELSE IF map[old_path] # NoEntry
    THEN [map |-> [map EXCEPT ![new_path] = map[old_path]],
          cells |-> BumpNlink(cells, osInodes[map[old_path]].nlink),
          ret |-> 0]
    ELSE [map |-> map, cells |-> cells, ret |-> -1]

\* unlink: [map, cells, ret].
unlink(map, cells, path) ==
    IF map[path] # NoEntry
    THEN The({ IF cells[c] > 1
               THEN The({ [map |-> IF after[c] = 1 THEN [map EXCEPT ![path] = NoEntry]
                                   ELSE map,
                           cells |-> after,
                           ret |-> 0]
                          : after \in {DropNlink(cells, c)} })
               ELSE [map |-> map, cells |-> cells, ret |-> -1]
               : c \in {osInodes[map[path]].nlink} })
    ELSE [map |-> map, cells |-> cells, ret |-> -1]

\* sys_fstat on a descriptor of an OSInode with these fields: ino and nlink.
fstat(os_inode) == [ino |-> os_inode.inode, nlink |-> nlinks[os_inode.nlink]]

\* sys_linkat.
Link(old_path, new_path) ==
    /\ linkOk
    /\ \A c \in 1..Len(nlinks) : nlinks[c] < MaxNlink
    /\ \E r \in {link(linkMap, nlinks, old_path, new_path)} :
          /\ linkMap' = r.map
          /\ nlinks' = r.cells
          /\ linkOp' = [op |-> "link", old |-> old_path, new |-> new_path,
                        ret |-> r.ret, map |-> linkMap, cells |-> nlinks]
    /\ UNCHANGED <<osInodes, rootDir, fileSize, linkOk>>

\* sys_unlinkat.
Unlink(path) ==
    /\ linkOk
    /\ \E r \in {unlink(linkMap, nlinks, path)} :
          /\ linkMap' = r.map
          /\ nlinks' = r.cells
          /\ linkOp' = [op |-> "unlink", path |-> path, ret |-> r.ret,
                        map |-> linkMap, cells |-> nlinks, sizes |-> fileSize]
    /\ UNCHANGED <<osInodes, rootDir, fileSize, linkOk>>

\* What open_file did: the flags, whether the path was in the map, whether an
\* OSInode was returned and its fields, and the state before the call.
OpenResult(name, flags, existed, some, os_inode) ==
    [op |-> "open", name |-> name, flags |-> flags, existed |-> existed,
     some |-> some, osInode |-> os_inode, panicked |-> FALSE,
     map |-> linkMap, dir |-> rootDir, sizes |-> fileSize]

\* open_file.  A path of the map is opened through a new OSInode that shares
\* the link count and the inode of the entry and is not put in the map; the
\* file is cleared first with CREATE, and with TRUNC when CREATE is absent.  A
\* path that is not in the map is created with CREATE: ROOT_INODE.create makes
\* an empty file, unless the root directory has the name already: then it
\* returns None and the unwrap panics.
OpenFile(name, flags) ==
    /\ linkOk
    /\ IF HasFlag(flags, CREATE)
       THEN IF linkMap[name] # NoEntry
            THEN /\ fileSize' = [fileSize EXCEPT ![osInodes[linkMap[name]].inode] = 0]
                 /\ linkOp' = OpenResult(name, flags, TRUE, TRUE, osInodes[linkMap[name]])
                 /\ UNCHANGED <<linkMap, osInodes, nlinks, rootDir, linkOk>>
            ELSE IF name \in rootDir
            THEN /\ linkOk' = FALSE
                 /\ linkOp' = [OpenResult(name, flags, FALSE, FALSE, NoEntry)
                               EXCEPT !.panicked = TRUE]
                 /\ UNCHANGED <<linkMap, osInodes, nlinks, rootDir, fileSize>>
            ELSE /\ Len(osInodes) < MaxFiles
                 /\ \E new \in {[nlink |-> Len(nlinks) + 1,
                                 inode |-> Cardinality(rootDir) + 1]} :
                       /\ osInodes' = Append(osInodes, new)
                       /\ linkOp' = OpenResult(name, flags, FALSE, TRUE, new)
                 /\ nlinks' = Append(nlinks, 1)
                 /\ rootDir' = rootDir \cup {name}
                 /\ fileSize' = Append(fileSize, 0)
                 /\ linkMap' = [linkMap EXCEPT ![name] = Len(osInodes) + 1]
                 /\ UNCHANGED linkOk
       ELSE IF linkMap[name] # NoEntry
            THEN /\ fileSize' = IF HasFlag(flags, TRUNC)
                                THEN [fileSize EXCEPT ![osInodes[linkMap[name]].inode] = 0]
                                ELSE fileSize
                 /\ linkOp' = OpenResult(name, flags, TRUE, TRUE, osInodes[linkMap[name]])
                 /\ UNCHANGED <<linkMap, osInodes, nlinks, rootDir, linkOk>>
            ELSE /\ linkOp' = OpenResult(name, flags, FALSE, FALSE, NoEntry)
                 /\ UNCHANGED <<linkMap, osInodes, nlinks, rootDir, fileSize, linkOk>>

\* OSInode::write through a descriptor of the file: the file is no longer
\* empty.
FileWrite(ino) ==
    /\ linkOk
    /\ fileSize[ino] < MaxFileSize
    /\ fileSize' = [fileSize EXCEPT ![ino] = @ + 1]
    /\ linkOp' = [op |-> "write", ino |-> ino]
    /\ UNCHANGED <<linkMap, osInodes, nlinks, rootDir, linkOk>>

\* HARD_LINK_MAP is created empty, over an empty root directory.
InitLink ==
    /\ linkMap = [p \in Paths |-> NoEntry]
    /\ osInodes = <<>>
    /\ nlinks = <<>>
    /\ rootDir = {}
    /\ fileSize = <<>>
    /\ linkOk = TRUE
    /\ linkOp = [op |-> "none"]

NextLink ==
    \/ \E old_path \in Paths, new_path \in Paths :
          Link(old_path, new_path) /\ UNCHANGED exceptLink
    \/ \E path \in Paths : Unlink(path) /\ UNCHANGED exceptLink
    \/ \E name \in Paths, flags \in OpenFlagSets :
          OpenFile(name, flags) /\ UNCHANGED exceptLink
    \/ \E ino \in 1..Len(fileSize) : FileWrite(ino) /\ UNCHANGED exceptLink

-----------------------------------------------------------------------------
(* Mailboxes: os/src/fs/mail_box.rs, sys_mail_read and sys_mail_write of   *)
(* os/src/syscall/fs.rs, and the copy made by fork (task/task.rs).         *)
(* MAX_PACKET_NUM is 16 and PACKET_BUFFER_SIZE is 256 in the source; both  *)
(* are scaled so that full mailboxes of every content are enumerated.  A   *)
(* process writes to its own mailbox: set_task_mail, which sys_mail_write  *)
(* calls for another pid, is not part of the source tree.                  *)

MAX_PACKET_NUM == 3
PACKET_BUFFER_SIZE == 4
MailPids == {1, 2}
NoMailBox == [size |-> -1]

\* The user buffers passed to mail_write (shorter than, as long as and longer
\* than a packet) and the buffer lengths passed to mail_read.
MailWriteBufs == {<<>>, <<1, 2>>, <<3, 1, 2, 3>>, <<2, 3, 1, 2, 3>>}
MailReadLens == {0, 1, PACKET_BUFFER_SIZE, PACKET_BUFFER_SIZE + 1}

MailBoxNew == [size |-> 0, packets |-> <<>>]
MailPacketNew == [arr |-> [i \in 1..PACKET_BUFFER_SIZE |-> 0], len |-> 0]

MailBoxPush(mb, packet) == [size |-> mb.size + 1, packets |-> Append(mb.packets, packet)]

\* for buffer in user_buf { arr[len] = *buffer; len += 1; if len >= SIZE { break } }
RECURSIVE FromBufferLoop(_, _, _)
FromBufferLoop(packet, user_buf, i) ==
    IF i > Len(user_buf) THEN packet
    ELSE The({ IF p1.len >= PACKET_BUFFER_SIZE THEN p1
               ELSE FromBufferLoop(p1, user_buf, i + 1) :
               p1 \in {[arr |-> [packet.arr EXCEPT ![packet.len + 1] = user_buf[i]],
                        len |-> packet.len + 1]} })

from_buffer(user_buf) == FromBufferLoop(MailPacketNew, user_buf, 1)

\* The bytes write_buf stores into a user buffer of buf_len bytes; it returns
\* their number.
write_buf_whole(packet, buf_len) == [i \in 1..packet.len |-> packet.arr[i]]
write_buf(packet, buf_len) ==
    [i \in 1..Min2(packet.len, buf_len) |-> packet.arr[i]]

is_full_above(mb) == mb.size > MAX_PACKET_NUM
is_full(mb) == mb.size >= MAX_PACKET_NUM

is_pushed_always(packet) == TRUE
is_pushed(packet) == packet.len > 0

\* MailBox::write: the value returned and the mailbox afterwards.
MailBoxWrite(mb, user_buf) ==
    IF is_full(mb) THEN [ret |-> -1, mb |-> mb]
    ELSE The({ [ret |-> packet.len,
                mb  |-> IF is_pushed(packet) THEN MailBoxPush(mb, packet) ELSE mb] :
               packet \in {from_buffer(user_buf)} })

\* MailBox::read: the value returned, the bytes stored into the user buffer
\* and the mailbox afterwards.
MailBoxRead(mb, buf_len) ==
    IF mb.size = 0 THEN [ret |-> -1, data |-> <<>>, mb |-> mb]
    ELSE IF buf_len > 0
    THEN IF mb.packets # <<>>
         THEN The({ [ret |-> Len(data), data |-> data,
                     mb |-> [size |-> mb.size - 1, packets |-> Tail(mb.packets)]] :
                    data \in {write_buf(Head(mb.packets), buf_len)} })
         ELSE [ret |-> -1, data |-> <<>>, mb |-> mb]
    ELSE [ret |-> 0, data |-> <<>>, mb |-> mb]

\* sys_mail_write(pid, buffer, len) by process p with pid = p; valid says
\* whether the buffer's first and last addresses are writable.
MailWrite(p, valid, user_buf) ==
    /\ mail_box[p] # NoMailBox
    /\ \E r \in {IF valid THEN MailBoxWrite(mail_box[p], user_buf)
                 ELSE [ret |-> -1, mb |-> mail_box[p]]} :
          /\ mail_box' = [mail_box EXCEPT ![p] = r.mb]
          /\ mailOp' = [op |-> "write", pid |-> p, valid |-> valid, buf |-> user_buf,
                        ret |-> r.ret, box |-> mail_box[p]]

\* sys_mail_read(buffer, len) by process p.
MailRead(p, valid, buf_len) ==
    /\ mail_box[p] # NoMailBox
    /\ \E r \in {IF valid THEN MailBoxRead(mail_box[p], buf_len)
                 ELSE [ret |-> -1, data |-> <<>>, mb |-> mail_box[p]]} :
          /\ mail_box' = [mail_box EXCEPT ![p] = r.mb]
          /\ mailOp' = [op |-> "read", pid |-> p, valid |-> valid, len |-> buf_len,
                        ret |-> r.ret, data |-> r.data, box |-> mail_box[p]]

\* fork: the child's mailbox is built by pushing a copy of every packet of
\* the parent's.
RECURSIVE PushAll(_, _, _)
PushAll(mb, packets, i) ==
    IF i > Len(packets) THEN mb ELSE PushAll(MailBoxPush(mb, packets[i]), packets, i + 1)

MailFork(p, child) ==
    /\ mail_box[p] # NoMailBox
    /\ mail_box[child] = NoMailBox
    /\ mail_box' = [mail_box EXCEPT ![child] = PushAll(MailBoxNew, mail_box[p].packets, 1)]
    /\ mailOp' = [op |-> "fork", pid |-> p, child |-> child]

InitMail ==
    /\ mail_box = [p \in MailPids |-> IF p = 1 THEN MailBoxNew ELSE NoMailBox]
    /\ mailOp = [op |-> "none"]

NextMail ==
    \/ \E p \in MailPids, valid \in BOOLEAN, user_buf \in MailWriteBufs :
          MailWrite(p, valid, user_buf) /\ UNCHANGED exceptMail
    \/ \E p \in MailPids, valid \in BOOLEAN, buf_len \in MailReadLens :
          MailRead(p, valid, buf_len) /\ UNCHANGED exceptMail
    \/ \E p \in MailPids, child \in MailPids : MailFork(p, child) /\ UNCHANGED exceptMail

-----------------------------------------------------------------------------
(* Descriptor tables: TaskControlBlockInner::alloc_fd and the fork copy of *)
(* os/src/task/task.rs; sys_openat, sys_close, sys_pipe and sys_dup of     *)
(* os/src/syscall/fs.rs.  A descriptor fd is slot fd + 1 of the sequence.  *)
(* An open file is an Arc: fileRefs is its strong count, and the object is *)
(* dropped when the count reaches 0.                                       *)

FdProcs == {1, 2}
MaxFdLen == 5
MaxFdFiles == 5
MaxFdOps == 5
NoFile == 0
FdArgs == {0, 3, 4, MaxFdLen}

\* (0..len).find(|fd| fd_table[*fd].is_none()), else push(None) and len - 1
alloc_fd_push(table) == [fd |-> Len(table), table |-> Append(table, NoFile)]
alloc_fd(table) ==
    IF \E fd \in 0..(Len(table) - 1) : table[fd + 1] = NoFile
    THEN [fd |-> CHOOSE fd \in 0..(Len(table) - 1) :
                     /\ table[fd + 1] = NoFile
                     /\ \A g \in 0..(fd - 1) : table[g + 1] # NoFile,
          table |-> table]
    ELSE [fd |-> Len(table), table |-> Append(table, NoFile)]

\* inner.fd_table[fd] = Some(file) after fd = inner.alloc_fd()
Install(table, file) ==
    The({ [fd |-> a.fd, table |-> [a.table EXCEPT ![a.fd + 1] = file]] :
          a \in {alloc_fd(table)} })

ArcClone(refs, file) == [refs EXCEPT ![file] = @ + 1]
ArcDropAll(refs, file) == [refs EXCEPT ![file] = 0]
ArcDrop(refs, file) == [refs EXCEPT ![file] = @ - 1]

\* sys_openat; some says whether open_file returned Some(inode), which is a
\* new OSInode.
FdOpen(p, some) ==
    /\ p \in fdLive
    /\ nfdops < MaxFdOps
    /\ nfdops' = nfdops + 1
    /\ IF some
       THEN /\ nfiles < MaxFdFiles
            /\ \E r \in {Install(fd_table[p], nfiles + 1)} :
                  /\ Len(r.table) <= MaxFdLen
                  /\ fd_table' = [fd_table EXCEPT ![p] = r.table]
                  /\ fileRefs' = [fileRefs EXCEPT ![nfiles + 1] = 1]
                  /\ nfiles' = nfiles + 1
                  /\ fdOp' = [op |-> "open", pid |-> p, ret |-> r.fd,
                              table |-> fd_table[p]]
       ELSE /\ fdOp' = [op |-> "open", pid |-> p, ret |-> -1, table |-> fd_table[p]]
            /\ UNCHANGED <<fd_table, fileRefs, nfiles>>
    /\ UNCHANGED fdLive

\* sys_close
FdClose(p, fd) ==
    /\ p \in fdLive
    /\ nfdops < MaxFdOps
    /\ nfdops' = nfdops + 1
    /\ IF fd >= Len(fd_table[p]) \/ fd_table[p][fd + 1] = NoFile
       THEN /\ fdOp' = [op |-> "close", pid |-> p, fd |-> fd, ret |-> -1,
                        tables |-> fd_table, refs |-> fileRefs]
            /\ UNCHANGED <<fd_table, fileRefs>>
       ELSE /\ fd_table' = [fd_table EXCEPT ![p][fd + 1] = NoFile]
            /\ fileRefs' = ArcDrop(fileRefs, fd_table[p][fd + 1])
            /\ fdOp' = [op |-> "close", pid |-> p, fd |-> fd, ret |-> 0,
                        tables |-> fd_table, refs |-> fileRefs]
    /\ UNCHANGED <<fdLive, nfiles>>

\* sys_pipe: make_pipe returns two new files, the read end and the write end
FdPipe(p) ==
    /\ p \in fdLive
    /\ nfdops < MaxFdOps
    /\ nfdops' = nfdops + 1
    /\ nfiles + 2 <= MaxFdFiles
    /\ \E r \in {Install(fd_table[p], nfiles + 1)} :
       \E w \in {Install(r.table, nfiles + 2)} :
          /\ Len(w.table) <= MaxFdLen
          /\ fd_table' = [fd_table EXCEPT ![p] = w.table]
          /\ fileRefs' = [fileRefs EXCEPT ![nfiles + 1] = 1, ![nfiles + 2] = 1]
          /\ nfiles' = nfiles + 2
          /\ fdOp' = [op |-> "pipe", pid |-> p, ret |-> 0, read_fd |-> r.fd,
                      write_fd |-> w.fd, table |-> fd_table[p], mid |-> r.table]
    /\ UNCHANGED fdLive

\* sys_dup
FdDup(p, fd) ==
    /\ p \in fdLive
    /\ nfdops < MaxFdOps
    /\ nfdops' = nfdops + 1
    /\ IF fd >= Len(fd_table[p]) \/ fd_table[p][fd + 1] = NoFile
       THEN /\ fdOp' = [op |-> "dup", pid |-> p, fd |-> fd, ret |-> -1,
                        table |-> fd_table[p]]
            /\ UNCHANGED <<fd_table, fileRefs>>
       ELSE \E r \in {Install(fd_table[p], fd_table[p][fd + 1])} :
               /\ Len(r.table) <= MaxFdLen
               /\ fd_table' = [fd_table EXCEPT ![p] = r.table]
               /\ fileRefs' = ArcClone(fileRefs, fd_table[p][fd + 1])
               /\ fdOp' = [op |-> "dup", pid |-> p, fd |-> fd, ret |-> r.fd,
                           table |-> fd_table[p]]
    /\ UNCHANGED <<fdLive, nfiles>>

\* fork: new_fd_table gets Some(file.clone()) for Some(file) and None for None
RECURSIVE CloneAll(_, _, _)
CloneAll(refs, table, i) ==
    IF i > Len(table) THEN refs
    ELSE CloneAll(IF table[i] = NoFile THEN refs ELSE ArcClone(refs, table[i]),
                  table, i + 1)

FdFork(p, child) ==
    /\ p \in fdLive
    /\ nfdops < MaxFdOps
    /\ nfdops' = nfdops + 1
    /\ child \notin fdLive
    /\ fd_table' = [fd_table EXCEPT ![child] = fd_table[p]]
    /\ fileRefs' = CloneAll(fileRefs, fd_table[p], 1)
    /\ fdLive' = fdLive \cup {child}
    /\ fdOp' = [op |-> "fork", pid |-> p, child |-> child, refs |-> fileRefs]
    /\ UNCHANGED nfiles

\* The initial process: Stdin, Stdout, Stdout in slots 0, 1, 2.
InitFd ==
    /\ fd_table = [p \in FdProcs |-> IF p = 1 THEN <<1, 2, 3>> ELSE <<>>]
    /\ fdLive = {1}
    /\ fileRefs = [f \in 1..MaxFdFiles |-> IF f <= 3 THEN 1 ELSE 0]
    /\ nfiles = 3
    /\ nfdops = 0
    /\ fdOp = [op |-> "none"]

NextFd ==
    \/ \E p \in FdProcs, some \in BOOLEAN : FdOpen(p, some) /\ UNCHANGED exceptFd
    \/ \E p \in FdProcs, fd \in FdArgs : FdClose(p, fd) /\ UNCHANGED exceptFd
    \/ \E p \in FdProcs : FdPipe(p) /\ UNCHANGED exceptFd
    \/ \E p \in FdProcs, fd \in FdArgs : FdDup(p, fd) /\ UNCHANGED exceptFd
    \/ \E p \in FdProcs, child \in FdProcs : FdFork(p, child) /\ UNCHANGED exceptFd

-----------------------------------------------------------------------------
(* Processes and waitpid: the child list kept by TaskControlBlock::fork    *)
(* (os/src/task/task.rs) and sys_waitpid_non_blocking, the handler the     *)
(* system call table installs for SYSCALL_WAITPID (syscall/process.rs,     *)
(* syscall/mod.rs).  The initial process has pid 0.  The exit path         *)
(* (exit_current_and_run_next with an exit code) is not part of the source *)
(* tree; Exit follows its description: the process becomes a Zombie, its   *)
(* code is recorded and its children move to the initial process.          *)

MaxPids == 4
WaitPids == 0..(MaxPids - 1)
INITPROC == 0
ExitCodes == {0, -2}
WaitPidArgs == {-1} \cup WaitPids
WaitPtrs == {0, 1}

\* pid == -1 || pid == 0 || pid as usize == p.getpid()
matches_pid_only(pid, p) == pid = p
matches(pid, p) == pid = -1 \/ pid = 0 \/ pid = p

\* TaskControlBlock::fork: the child gets the next pid and is pushed onto the
\* parent's children.
WaitFork(p) ==
    /\ task_status[p] = "Ready"
    /\ npids < MaxPids
    /\ children' = [children EXCEPT ![p] = Append(@, npids)]
    /\ task_status' = [task_status EXCEPT ![npids] = "Ready"]
    /\ exit_code' = [exit_code EXCEPT ![npids] = 0]
    /\ npids' = npids + 1
    /\ waitOp' = [op |-> "fork", pid |-> p, ret |-> npids]

\* exit(code) of a process other than the initial one.
Exit(p, code) ==
    /\ p # INITPROC
    /\ task_status[p] = "Ready"
    /\ task_status' = [task_status EXCEPT ![p] = "Zombie"]
    /\ exit_code' = [exit_code EXCEPT ![p] = code]
    /\ children' = [children EXCEPT ![INITPROC] = @ \o children[p], ![p] = <<>>]
    /\ waitOp' = [op |-> "exit", pid |-> p, code |-> code]
    /\ UNCHANGED npids

\* children.iter().enumerate().find(|(_, p)| p.is_zombie() && matches): the
\* index of the first matching zombie, 0 if there is none.
FindZombie(p, pid) ==
    IF \E i \in 1..Len(children[p]) :
          task_status[children[p][i]] = "Zombie" /\ matches(pid, children[p][i])
    THEN CHOOSE i \in 1..Len(children[p]) :
            /\ task_status[children[p][i]] = "Zombie" /\ matches(pid, children[p][i])
            /\ \A j \in 1..(i - 1) :
                  ~(task_status[children[p][j]] = "Zombie" /\ matches(pid, children[p][j]))
    ELSE 0

\* sys_waitpid_non_blocking(pid, exit_code_ptr) called by process p; ptr is
\* exit_code_ptr (0 is the null pointer) and writable is what
\* virtual_addr_writable answers for it in the address space of p.
Waitpid(p, pid, ptr, writable) ==
    /\ task_status[p] = "Ready"
    /\ IF ~\E i \in 1..Len(children[p]) : matches(pid, children[p][i])
       THEN /\ waitOp' = [op |-> "waitpid", caller |-> p, pid |-> pid, ptr |-> ptr,
                          writable |-> writable, ret |-> -1, stored |-> <<>>,
                          children |-> children[p], status |-> task_status,
                          codes |-> exit_code]
            /\ UNCHANGED <<children, task_status, exit_code>>
       ELSE \E idx \in {FindZombie(p, pid)} :
               IF idx # 0
               THEN /\ children' = [children EXCEPT ![p] = RemoveAt(@, idx)]
                    /\ task_status' = [task_status EXCEPT ![children[p][idx]] = "NoTask"]
                    /\ waitOp' = [op |-> "waitpid", caller |-> p, pid |-> pid, ptr |-> ptr,
                                  writable |-> writable,
                                  ret |-> IF writable THEN children[p][idx] ELSE -1,
                                  stored |-> IF writable THEN <<exit_code[children[p][idx]]>>
                                             ELSE <<>>,
                                  children |-> children[p], status |-> task_status,
                                  codes |-> exit_code]
                    /\ UNCHANGED exit_code
               ELSE /\ waitOp' = [op |-> "waitpid", caller |-> p, pid |-> pid, ptr |-> ptr,
                                  writable |-> writable, ret |-> -2, stored |-> <<>>,
                                  children |-> children[p], status |-> task_status,
                                  codes |-> exit_code]
                    /\ UNCHANGED <<children, task_status, exit_code>>
    /\ UNCHANGED npids

InitWait ==
    /\ children = [p \in WaitPids |-> <<>>]
    /\ task_status = [p \in WaitPids |-> IF p = INITPROC THEN "Ready" ELSE "NoTask"]
    /\ exit_code = [p \in WaitPids |-> 0]
    /\ npids = 1
    /\ waitOp = [op |-> "none"]

NextWait ==
    \/ \E p \in WaitPids : WaitFork(p) /\ UNCHANGED exceptWait
    \/ \E p \in WaitPids, code \in ExitCodes : Exit(p, code) /\ UNCHANGED exceptWait
    \/ \E p \in WaitPids, pid \in WaitPidArgs, ptr \in WaitPtrs, writable \in BOOLEAN :
          Waitpid(p, pid, ptr, writable) /\ UNCHANGED exceptWait

-----------------------------------------------------------------------------
(* User buffers of system calls: translated_byte_buffer and the range      *)
(* checks of os/src/mm/page_table.rs, as used by sys_write, sys_read,      *)
(* sys_mail_read and sys_mail_write (os/src/syscall/fs.rs).  The caller's  *)
(* page table is represented by what PageTable::translate returns for each *)
(* virtual page: NoPte when an interior table is missing, otherwise the    *)
(* leaf entry, valid or not.  The file or mailbox is ready to transfer     *)
(* every byte of the buffer through the UserBuffer iterator.               *)

BufVpns == 0..3
BufPtes == {NoPte, 0, PTE_V + PTE_R + PTE_W + PTE_U, PTE_V + PTE_R + PTE_U,
            PTE_V + PTE_R + PTE_W}
\* <<buf, len>>: inside a page, empty, over three pages, up to a page end.
BufArgs == {<<0, 1>>, <<2, 0>>, <<1, 4>>, <<3, 1>>, <<2, 2>>, <<4, 3>>}

\* PageTable::translate_pte: the entry of the page of va
translate_pte(pt, va) == pt[va \div PAGE_SIZE]

virtual_addr_printable(pt, va) ==
    /\ translate_pte(pt, va) # NoPte
    /\ IsValid(translate_pte(pt, va))
    /\ HasFlag(translate_pte(pt, va), PTE_R)
    /\ ~HasFlag(translate_pte(pt, va), PTE_X)

virtual_addr_writable(pt, va) ==
    /\ translate_pte(pt, va) # NoPte
    /\ IsValid(translate_pte(pt, va))
    /\ HasFlag(translate_pte(pt, va), PTE_R)
    /\ HasFlag(translate_pte(pt, va), PTE_W)

virtual_addr_range_printable(pt, ptr, len) ==
    virtual_addr_printable(pt, ptr) /\ virtual_addr_printable(pt, ptr + len)

virtual_addr_range_writable(pt, ptr, len) ==
    virtual_addr_writable(pt, ptr) /\ virtual_addr_writable(pt, ptr + len)

\* translated_byte_buffer: the slices [vpn, from, to) pushed onto v; panic is
\* TRUE when translate(vpn).unwrap() fails or a slice has from > to.
RECURSIVE TranslateLoop(_, _, _, _)
TranslateLoop(pt, start, end, vec) ==
    IF start >= end THEN [panic |-> FALSE, v |-> vec]
    ELSE IF translate_pte(pt, start) = NoPte THEN [panic |-> TRUE, v |-> vec]
    ELSE \* end_va = min(start of the next page, end)
         The({ IF start % PAGE_SIZE > end_va % PAGE_SIZE
               THEN [panic |-> TRUE, v |-> vec]
               ELSE TranslateLoop(pt, end_va, end,
                                  Append(vec, [vpn |-> start \div PAGE_SIZE,
                                               from |-> start % PAGE_SIZE,
                                               to |-> end_va % PAGE_SIZE]))
               : end_va \in {Min2((start \div PAGE_SIZE + 1) * PAGE_SIZE, end)} })

translated_byte_buffer(pt, ptr, len) == TranslateLoop(pt, ptr, ptr + len, <<>>)

\* The transfer of every byte through UserBufferIterator::next, which indexes
\* buffers[current_buffer][current_idx]: a panic on an empty slice.
Transfer(b) ==
    IF b.panic \/ \E i \in 1..Len(b.v) : b.v[i].from = b.v[i].to
    THEN [panicked |-> TRUE, ret |-> 0, pages |-> {}]
    ELSE [panicked |-> FALSE,
          ret |-> IF Len(b.v) = 0 THEN 0
                  ELSE b.v[Len(b.v)].to + (Len(b.v) - 1) * PAGE_SIZE - b.v[1].from,
          pages |-> { b.v[i].vpn : i \in 1..Len(b.v) }]

Rejected == [panicked |-> FALSE, ret |-> -1, pages |-> {}]

BufCall(name, ptr, len, r) ==
    /\ bufOk
    /\ bufOk' = ~r.panicked
    /\ bufOp' = [op |-> name, ptr |-> ptr, len |-> len, ret |-> r.ret,
                 panicked |-> r.panicked, pages |-> r.pages]
    /\ UNCHANGED bufPt

\* sys_write on a writable file
BufSysWrite(ptr, len) ==
    BufCall("write", ptr, len,
            IF ~virtual_addr_range_printable(bufPt, ptr, len) THEN Rejected
            ELSE Transfer(translated_byte_buffer(bufPt, ptr, len)))

\* sys_read on a readable file: the buffer is translated without a check
BufSysRead(ptr, len) ==
    BufCall("read", ptr, len, Transfer(translated_byte_buffer(bufPt, ptr, len)))

\* sys_mail_read on a non-empty mailbox
BufMailRead(ptr, len) ==
    BufCall("mail_read", ptr, len,
            IF ~virtual_addr_range_printable(bufPt, ptr, len) THEN Rejected
            ELSE Transfer(translated_byte_buffer(bufPt, ptr, len)))

\* sys_mail_write to a mailbox that is not full
BufMailWrite(ptr, len) ==
    BufCall("mail_write", ptr, len,
            IF ~virtual_addr_range_writable(bufPt, ptr, len) THEN Rejected
            ELSE Transfer(translated_byte_buffer(bufPt, ptr, len)))

\* a fresh page table: no page has an interior table
InitBuf ==
    /\ bufPt = [vpn \in BufVpns |-> NoPte]
    /\ bufOk = TRUE
    /\ bufOp = [op |-> "none"]

\* any page table over BufVpns, as left by the memory system calls
InitBufTables ==
    /\ bufPt \in [BufVpns -> BufPtes]
    /\ bufOk = TRUE
    /\ bufOp = [op |-> "none"]

NextBuf ==
    \/ \E a \in BufArgs : BufSysWrite(a[1], a[2]) /\ UNCHANGED exceptBuf
    \/ \E a \in BufArgs : BufSysRead(a[1], a[2]) /\ UNCHANGED exceptBuf
    \/ \E a \in BufArgs : BufMailRead(a[1], a[2]) /\ UNCHANGED exceptBuf
    \/ \E a \in BufArgs : BufMailWrite(a[1], a[2]) /\ UNCHANGED exceptBuf

-----------------------------------------------------------------------------
(* Processes and the ready queue: TASK_MANAGER of os/src/task/manager.rs   *)
(* (the FIFO TaskManager), the idle loop Processor::run of processor.rs,   *)
(* fork and set_priority of task.rs.  One CPU.  proc_current = NoPid is    *)
(* the idle loop between two dispatches; system calls and traps are taken  *)
(* by the process on the CPU.  BIG_STRIDE is scaled from 0x7FFFFFFF to     *)
(* 0x7FFF; like the original it is odd and no multiple of 10, 16 or 20.    *)

MaxSchedPids == 3
MaxDispatch == 5
SchedPids == 0..(MaxSchedPids - 1)
NoPid == -1
BIG_STRIDE == 32767
TASK_INIT_PRIORITY == 16
PriorityArgs == {1, 10, 20}

\* TaskManager::add: push_back
add(q, task) == Append(q, task)

\* TaskManager::fetch: pop_front
fetch_peek(q) ==
    IF q = <<>> THEN [task |-> NoPid, queue |-> q]
    ELSE [task |-> Head(q), queue |-> q]
fetch(q) ==
    IF q = <<>> THEN [task |-> NoPid, queue |-> q]
    ELSE [task |-> Head(q), queue |-> Tail(q)]

\* the stride step of a dispatch: BIG_STRIDE / task_priority, isize division
StridePassCeil(priority) == (BIG_STRIDE + priority - 1) \div priority
StridePass(priority) == BIG_STRIDE \div priority

\* TaskControlBlock::set_priority
set_priority_positive(old, priority) ==
    IF priority > 0 THEN [ret |-> priority, priority |-> priority]
    ELSE [ret |-> -1, priority |-> old]
set_priority(old, priority) ==
    IF priority > 1 THEN [ret |-> priority, priority |-> priority]
    ELSE [ret |-> -1, priority |-> old]

\* the record of a step of process pid: its stride and priority before it
SchedBefore(name, pid) ==
    [op |-> name, pid |-> pid,
     stride |-> IF pid = NoPid THEN 0 ELSE task_stride[pid],
     priority |-> IF pid = NoPid THEN 0 ELSE task_priority[pid],
     arg |-> 0, ret |-> 0]

\* One iteration of the loop of Processor::run
SchedDispatch ==
    /\ schedOk
    /\ proc_current = NoPid
    /\ Len(dispatched) < MaxDispatch
    /\ \E f \in {fetch(ready_queue)} :
          IF f.task = NoPid
          THEN /\ schedOk' = FALSE
               /\ schedOp' = SchedBefore("panic", NoPid)
               /\ UNCHANGED <<sched_status, ready_queue, proc_current,
                              task_stride, task_priority, dispatched>>
          ELSE /\ sched_status' = [sched_status EXCEPT ![f.task] = "Running"]
               /\ task_stride' = [task_stride EXCEPT
                                    ![f.task] = @ + StridePass(task_priority[f.task])]
               /\ proc_current' = f.task
               /\ ready_queue' = f.queue
               /\ dispatched' = Append(dispatched, <<f.task, task_priority[f.task]>>)
               /\ schedOp' = SchedBefore("dispatch", f.task)
               /\ UNCHANGED <<task_priority, schedOk>>

\* suspend_current_and_run_next up to the switch into the idle loop
Suspend(name) ==
    /\ schedOk
    /\ proc_current # NoPid
    /\ sched_status' = [sched_status EXCEPT ![proc_current] = "Ready"]
    /\ ready_queue' = add(ready_queue, proc_current)
    /\ proc_current' = NoPid
    /\ schedOp' = SchedBefore(name, proc_current)
    /\ UNCHANGED <<task_stride, task_priority, dispatched, schedOk>>

\* sys_yield
SchedYield == Suspend("yield")

\* the supervisor timer interrupt in trap_handler
SchedTimer == Suspend("timer")

\* sys_fork (and sys_spawn, which differs in the program only)
SchedFork ==
    /\ schedOk
    /\ proc_current # NoPid
    /\ \E child \in SchedPids :
          /\ sched_status[child] = "none"
          /\ \A p \in SchedPids : p < child => sched_status[p] # "none"
          /\ sched_status' = [sched_status EXCEPT ![child] = "Ready"]
          /\ task_stride' = [task_stride EXCEPT ![child] = 0]
          /\ task_priority' = [task_priority EXCEPT
                                 ![child] = task_priority[proc_current]]
          /\ ready_queue' = add(ready_queue, child)
          /\ schedOp' = [SchedBefore("fork", proc_current) EXCEPT !.ret = child]
    /\ UNCHANGED <<proc_current, dispatched, schedOk>>

\* exit_current_and_run_next up to the switch into the idle loop
SchedExit ==
    /\ schedOk
    /\ proc_current # NoPid
    /\ sched_status' = [sched_status EXCEPT ![proc_current] = "Zombie"]
    /\ proc_current' = NoPid
    /\ schedOp' = SchedBefore("exit", proc_current)
    /\ UNCHANGED <<ready_queue, task_stride, task_priority, dispatched, schedOk>>

\* sys_set_priority
SchedSetPriority(priority) ==
    /\ schedOk
    /\ proc_current # NoPid
    /\ \E r \in {set_priority(task_priority[proc_current], priority)} :
          /\ task_priority' = [task_priority EXCEPT ![proc_current] = r.priority]
          /\ schedOp' = [SchedBefore("set_priority", proc_current) EXCEPT
                           !.arg = priority, !.ret = r.ret]
    /\ UNCHANGED <<sched_status, ready_queue, proc_current, task_stride,
                   dispatched, schedOk>>

\* after add_initproc: the initial process is in the ready queue
InitSched ==
    /\ sched_status = [p \in SchedPids |-> IF p = 0 THEN "Ready" ELSE "none"]
    /\ ready_queue = <<0>>
    /\ proc_current = NoPid
    /\ task_stride = [p \in SchedPids |-> 0]
    /\ task_priority = [p \in SchedPids |-> TASK_INIT_PRIORITY]
    /\ dispatched = <<>>
    /\ schedOk = TRUE
    /\ schedOp = [op |-> "none"]

NextSched ==
    \/ SchedDispatch /\ UNCHANGED exceptSched
    \/ SchedYield /\ UNCHANGED exceptSched
    \/ SchedTimer /\ UNCHANGED exceptSched
    \/ SchedFork /\ UNCHANGED exceptSched
    \/ SchedExit /\ UNCHANGED exceptSched
    \/ \E p \in PriorityArgs : SchedSetPriority(p) /\ UNCHANGED exceptSched

-----------------------------------------------------------------------------
(*      The data bitmap and the disk layout (easy-fs/bitmap.rs, efs.rs)     *)

\* Bits per word of a BitmapBlock.  The source has u64 words; the model keeps
\* 2 bits per word.
WORD_BITS == 2
\* Words per BitmapBlock.  The source has 64; the model keeps 2.
BITMAP_WORDS == 2
\* Bits per bitmap block (BLOCK_SZ * 8 = 4096 in the source).
BLOCK_BITS == BITMAP_WORDS * WORD_BITS
\* u64::MAX at the width of the model.
WORD_MAX == (2 ^ WORD_BITS) - 1
\* DiskInodes per block: BLOCK_SZ / size_of::<DiskInode>() = 512 / 128.
INODES_PER_BLOCK == 4
\* Largest total_blocks handed to EasyFileSystem::create.
MaxTotalBlocks == 13
NoBit == -1
NoEfs == [none |-> TRUE]

\* A position that is always the lowest bit of the word.
trailing_ones_ignored(w) == 0

\* u64::trailing_ones
RECURSIVE trailing_ones(_)
trailing_ones(w) == IF w % 2 = 1 THEN 1 + trailing_ones(w \div 2) ELSE 0

\* word & (1 << pos) > 0
WordBit(w, pos) == (w \div (2 ^ pos)) % 2 = 1

\* decomposition: (block_pos, bits64_pos, inner_pos) of a bit number.
decomposition(bit) ==
    <<bit \div BLOCK_BITS, (bit % BLOCK_BITS) \div WORD_BITS, (bit % BLOCK_BITS) % WORD_BITS>>

\* The closure of Bitmap::alloc on one bitmap block (a sequence of words as
\* the block cache holds it): the first word that is not WORD_MAX gets its
\* lowest zero bit set.  [block, pos]; pos = NoBit stands for None.
RECURSIVE BitmapBlockAlloc(_, _)
BitmapBlockAlloc(bitmap_block, bits64_pos) ==
    IF bits64_pos >= BITMAP_WORDS THEN [block |-> bitmap_block, pos |-> NoBit]
    ELSE IF bitmap_block[bits64_pos + 1] # WORD_MAX
    THEN The({ [block |-> [bitmap_block EXCEPT ![bits64_pos + 1] = BitOr(@, 2 ^ inner_pos)],
                pos |-> bits64_pos * WORD_BITS + inner_pos]
               : inner_pos \in {trailing_ones(bitmap_block[bits64_pos + 1])} })
    ELSE BitmapBlockAlloc(bitmap_block, bits64_pos + 1)

\* Bitmap::alloc: the loop over the blocks of the bitmap, from block_id.
\* bm is the sequence of the bitmap's blocks.  [bm, bit].
RECURSIVE Bitmap_alloc(_, _)
Bitmap_alloc(bm, block_id) ==
    IF block_id >= Len(bm) THEN [bm |-> bm, bit |-> NoBit]
    ELSE The({ IF r.pos # NoBit
               THEN [bm |-> [bm EXCEPT ![block_id + 1] = r.block],
                     bit |-> block_id * BLOCK_BITS + r.pos]
               ELSE Bitmap_alloc(bm, block_id + 1)
               : r \in {BitmapBlockAlloc(bm[block_id + 1], 0)} })

\* Bitmap::dealloc for a bit below maximum(): [bm, ok]; the assertion that the
\* bit is set panics otherwise.
Bitmap_dealloc(bm, bit) ==
    The({ IF ~WordBit(bm[d[1] + 1][d[2] + 1], d[3]) THEN [bm |-> bm, ok |-> FALSE]
          ELSE [bm |-> [bm EXCEPT ![d[1] + 1][d[2] + 1] = @ - (2 ^ d[3])], ok |-> TRUE]
          : d \in {decomposition(bit)} })

\* Bitmap::maximum
Bitmap_maximum(blocks) == blocks * BLOCK_BITS

\* The areas EasyFileSystem::create computes for total_blocks blocks and
\* inode_bitmap_blocks blocks of inode bitmap.
EfsLayout(total, inode_bitmap_blocks) ==
    LET inode_num == Bitmap_maximum(inode_bitmap_blocks)
        inode_area_blocks == (inode_num + INODES_PER_BLOCK - 1) \div INODES_PER_BLOCK
        inode_total_blocks == inode_bitmap_blocks + inode_area_blocks
        data_total_blocks == total - 1 - inode_total_blocks
        data_bitmap_blocks == (data_total_blocks + BLOCK_BITS) \div (BLOCK_BITS + 1)
    IN [total_blocks |-> total,
        data_bitmap_start |-> 1 + inode_bitmap_blocks + inode_area_blocks,
        data_bitmap_blocks |-> data_bitmap_blocks,
        data_area_blocks |-> data_total_blocks - data_bitmap_blocks,
        data_area_start_block |-> 1 + inode_total_blocks + data_bitmap_blocks]

\* The sizes create is called with: every size that leaves a data block.
TotalBlocksArgs ==
    {t \in 1..MaxTotalBlocks : EfsLayout(t, 1).data_area_blocks > 0}

\* The bits that are set in the bitmap.
SetBits(bm) ==
    {bit \in 0..(Bitmap_maximum(Len(bm)) - 1) :
        WordBit(bm[decomposition(bit)[1] + 1][decomposition(bit)[2] + 1],
                decomposition(bit)[3])}

\* EasyFileSystem::create: every block is zeroed, so the data bitmap is clear.
EfsCreate(total) ==
    /\ efs = NoEfs
    /\ efs' = EfsLayout(total, 1)
    /\ data_bitmap' = [b \in 1..EfsLayout(total, 1).data_bitmap_blocks |->
                          [w \in 1..BITMAP_WORDS |-> 0]]
    /\ bmOp' = [op |-> "create"]
    /\ UNCHANGED bmOk

\* EasyFileSystem::alloc_data: data_bitmap.alloc().unwrap() + data_area_start_block.
EfsAllocData ==
    /\ efs # NoEfs
    /\ bmOk
    /\ \E r \in {Bitmap_alloc(data_bitmap, 0)} :
          /\ data_bitmap' = r.bm
          /\ bmOk' = (r.bit # NoBit)
          /\ bmOp' = [op |-> "alloc", bit |-> r.bit,
                      id |-> IF r.bit = NoBit THEN NoBit ELSE r.bit + efs.data_area_start_block,
                      before |-> SetBits(data_bitmap)]
    /\ UNCHANGED efs

\* EasyFileSystem::dealloc_data(block_id), seen from the bitmap: the bit
\* block_id - data_area_start_block is given to Bitmap::dealloc.
EfsDeallocData(block_id) ==
    /\ efs # NoEfs
    /\ bmOk
    /\ \E r \in {Bitmap_dealloc(data_bitmap, block_id - efs.data_area_start_block)} :
          /\ data_bitmap' = r.bm
          /\ bmOk' = r.ok
          /\ bmOp' = [op |-> "dealloc", bit |-> block_id - efs.data_area_start_block,
                      id |-> block_id, before |-> SetBits(data_bitmap)]
    /\ UNCHANGED efs

InitBitmap ==
    /\ efs = NoEfs
    /\ data_bitmap = <<>>
    /\ bmOk = TRUE
    /\ bmOp = [op |-> "none"]

NextBitmap ==
    \/ \E t \in TotalBlocksArgs : EfsCreate(t) /\ UNCHANGED exceptBitmap
    \/ EfsAllocData /\ UNCHANGED exceptBitmap
    \/ \E b \in 0..(Bitmap_maximum(Len(data_bitmap)) - 1) :
          EfsDeallocData(b + efs.data_area_start_block) /\ UNCHANGED exceptBitmap

-----------------------------------------------------------------------------
(*   Locks at the suspension points (syscall/fs.rs, syscall/process.rs,     *)
(*   fs/pipe.rs, fs/stdio.rs, task/processor.rs)                            *)
(*                                                                         *)
(* Each process executes its system call statement by statement; lkPc is   *)
(* the statement it executes next.  The locks are spin locks on one CPU:   *)
(* an acquire of a lock that has an owner never returns (lkHang).  Process *)
(* 1 is the parent of process 2; both hold the two ends of one pipe.       *)

LkPids == {1, 2}
\* The buffer lengths of the read and write calls: a buffer that fits the
\* ring and one that is longer than the ring.
LkLens == {RING_BUFFER_SIZE - 1, RING_BUFFER_SIZE + 1}
\* The locks: the ring buffer's mutex and the PCB mutex of each process.
RingLock == 0
PcbLock(p) == p
LkLocks == {RingLock} \cup {PcbLock(p) : p \in LkPids}
\* The files a descriptor may name: none (a bad descriptor), a pipe end, stdin.
LkFiles == {"none", "pipe", "stdin"}

\* The locks process p owns.
HeldBy(owner, p) == {l \in LkLocks : owner[l] = p}

\* A drop of a guard that is left out.
drop_guard_skipped(owner, l) == owner

\* drop(guard), and the drop of a guard at the end of its scope or at a return.
drop_guard(owner, l) == [owner EXCEPT ![l] = NoPid]

\* What every step records: its name, the process, and the locks the process
\* held when it began.
LkRecord(name, p) == [op |-> name, pid |-> p, held |-> HeldBy(lkOwner, p)]

\* Mutex::lock by process p, which goes on to statement next.
LkAcquire(name, p, l, next) ==
    /\ lkOp' = LkRecord(name, p)
    /\ IF lkOwner[l] # NoPid
       THEN /\ lkHang' = TRUE
            /\ UNCHANGED <<lkPc, lkOwner>>
       ELSE /\ lkOwner' = [lkOwner EXCEPT ![l] = p]
            /\ lkPc' = [lkPc EXCEPT ![p] = next]
            /\ UNCHANGED lkHang
    /\ UNCHANGED <<lkLeft, lkRing, lkWriteOpen, lkCur, lkQueue, lkStatus>>

\* drop(guard) by process p, which goes on to statement next.
LkDrop(name, p, l, next) ==
    /\ lkOp' = LkRecord(name, p)
    /\ lkOwner' = drop_guard(lkOwner, l)
    /\ lkPc' = [lkPc EXCEPT ![p] = next]
    /\ UNCHANGED <<lkLeft, lkRing, lkWriteOpen, lkCur, lkQueue, lkStatus, lkHang>>

\* suspend_current_and_run_next by process p, which resumes at statement next:
\* the PCB lock of p is taken to mark it Ready and dropped, p joins the ready
\* queue and the CPU returns to the idle loop.
LkSuspend(name, p, next) ==
    /\ lkOp' = LkRecord(name, p)
    /\ IF lkOwner[PcbLock(p)] # NoPid
       THEN /\ lkHang' = TRUE
            /\ UNCHANGED <<lkPc, lkCur, lkQueue, lkStatus>>
       ELSE /\ lkStatus' = [lkStatus EXCEPT ![p] = "Ready"]
            /\ lkQueue' = Append(lkQueue, p)
            /\ lkCur' = NoPid
            /\ lkPc' = [lkPc EXCEPT ![p] = next]
            /\ UNCHANGED lkHang
    /\ UNCHANGED <<lkLeft, lkRing, lkWriteOpen, lkOwner>>

\* Process p is on the CPU and about to execute statement pc.
LkAt(p, pc) == ~lkHang /\ lkCur = p /\ lkPc[p] = pc

\* Processor::run: fetch a task, take its PCB lock to mark it Running, drop
\* the lock and switch to the task.
LkRun ==
    /\ ~lkHang
    /\ lkCur = NoPid
    /\ lkQueue # <<>>
    /\ lkOp' = [op |-> "run", pid |-> Head(lkQueue), held |-> HeldBy(lkOwner, Head(lkQueue))]
    /\ IF lkOwner[PcbLock(Head(lkQueue))] # NoPid
       THEN /\ lkHang' = TRUE
            /\ UNCHANGED <<lkCur, lkQueue, lkStatus>>
       ELSE /\ lkStatus' = [lkStatus EXCEPT ![Head(lkQueue)] = "Running"]
            /\ lkCur' = Head(lkQueue)
            /\ lkQueue' = Tail(lkQueue)
            /\ UNCHANGED lkHang
    /\ UNCHANGED <<lkPc, lkLeft, lkRing, lkWriteOpen, lkOwner>>

\* A system call is entered from user mode; read and write have a buffer of
\* len bytes.
LkSyscall(p, pc, len) ==
    /\ LkAt(p, "user")
    /\ lkOp' = LkRecord("syscall", p)
    /\ lkPc' = [lkPc EXCEPT ![p] = pc]
    /\ lkLeft' = [lkLeft EXCEPT ![p] = IF pc \in {"sys_read", "sys_write"} THEN len ELSE 0]
    /\ UNCHANGED <<lkRing, lkWriteOpen, lkOwner, lkCur, lkQueue, lkStatus, lkHang>>

\* sys_yield, and the timer interrupt taken in user mode.
LkYield(p) == LkAt(p, "sys_yield") /\ LkSuspend("yield", p, "user")
LkTimer(p) == LkAt(p, "user") /\ LkSuspend("timer", p, "user")

\* sys_read: task.acquire_inner_lock().
SysReadAcquire(p) ==
    LkAt(p, "sys_read") /\ LkAcquire("sys_read", p, PcbLock(p), "sys_read_fd")

\* sys_read: the look at fd_table.  A bad descriptor returns -1 (the guard is
\* dropped at the return); else the file is cloned and the guard dropped.
SysReadFd(p, file) ==
    /\ LkAt(p, "sys_read_fd")
    /\ LkDrop("sys_read_fd", p, PcbLock(p),
              IF file = "pipe" THEN "pipe_read_lock"
              ELSE IF file = "stdin" THEN "stdin_getchar" ELSE "user")

\* Pipe::read: self.buffer.lock().
PipeReadLock(p) ==
    LkAt(p, "pipe_read_lock") /\ LkAcquire("pipe_read_lock", p, RingLock, "pipe_read_loop")

\* Pipe::read: an empty ring with every write end closed returns.
PipeReadClosed(p) ==
    /\ LkAt(p, "pipe_read_loop")
    /\ lkRing = 0
    /\ ~lkWriteOpen
    /\ LkDrop("pipe_read_return", p, RingLock, "user")

\* Pipe::read: an empty ring with a write end open: drop(ring_buffer).
PipeReadDrop(p) ==
    /\ LkAt(p, "pipe_read_loop")
    /\ lkRing = 0
    /\ lkWriteOpen
    /\ LkDrop("pipe_read_drop", p, RingLock, "pipe_read_suspend")

\* Pipe::read: suspend_current_and_run_next(); continue.
PipeReadSuspend(p) ==
    LkAt(p, "pipe_read_suspend") /\ LkSuspend("pipe_read_suspend", p, "pipe_read_lock")

\* Pipe::read: loop_read bytes are there.  The call returns when the buffer
\* is exhausted inside the for loop; else the guard is dropped at the end of
\* the iteration and the loop goes on.
PipeReadBytes(p) ==
    /\ LkAt(p, "pipe_read_loop")
    /\ lkRing > 0
    /\ lkOp' = LkRecord("pipe_read_bytes", p)
    /\ lkRing' = lkRing - Min2(lkRing, lkLeft[p])
    /\ lkLeft' = [lkLeft EXCEPT ![p] = @ - Min2(lkRing, @)]
    /\ lkOwner' = drop_guard(lkOwner, RingLock)
    /\ lkPc' = [lkPc EXCEPT ![p] = IF lkLeft[p] < lkRing THEN "user" ELSE "pipe_read_lock"]
    /\ UNCHANGED <<lkWriteOpen, lkCur, lkQueue, lkStatus, lkHang>>

\* Stdin::read: console_getchar returns a character or 0.
StdinGetchar(p, c) ==
    /\ LkAt(p, "stdin_getchar")
    /\ lkOp' = LkRecord("stdin_getchar", p)
    /\ lkPc' = [lkPc EXCEPT ![p] = IF c = 0 THEN "stdin_suspend" ELSE "user"]
    /\ UNCHANGED <<lkLeft, lkRing, lkWriteOpen, lkOwner, lkCur, lkQueue, lkStatus, lkHang>>

\* Stdin::read: suspend_current_and_run_next(); continue.
StdinSuspend(p) ==
    LkAt(p, "stdin_suspend") /\ LkSuspend("stdin_suspend", p, "stdin_getchar")

\* sys_write: task.acquire_inner_lock().
SysWriteAcquire(p) ==
    LkAt(p, "sys_write") /\ LkAcquire("sys_write", p, PcbLock(p), "sys_write_fd")

\* sys_write: the look at fd_table; the guard is dropped at the return of -1
\* or by drop(inner) before the buffer is checked and the file written.
SysWriteFd(p, file) ==
    /\ LkAt(p, "sys_write_fd")
    /\ file = "pipe" => lkWriteOpen
    /\ LkDrop("sys_write_fd", p, PcbLock(p),
              IF file = "pipe" THEN "pipe_write_lock" ELSE "user")

\* Pipe::write: self.buffer.lock().
PipeWriteLock(p) ==
    LkAt(p, "pipe_write_lock") /\ LkAcquire("pipe_write_lock", p, RingLock, "pipe_write_loop")

\* Pipe::write: a full ring: drop(ring_buffer).
PipeWriteDrop(p) ==
    /\ LkAt(p, "pipe_write_loop")
    /\ lkRing = RING_BUFFER_SIZE
    /\ LkDrop("pipe_write_drop", p, RingLock, "pipe_write_suspend")

\* Pipe::write: suspend_current_and_run_next(); continue.
PipeWriteSuspend(p) ==
    LkAt(p, "pipe_write_suspend") /\ LkSuspend("pipe_write_suspend", p, "pipe_write_lock")

\* Pipe::write: there is room for loop_write bytes.
PipeWriteBytes(p) ==
    /\ LkAt(p, "pipe_write_loop")
    /\ lkRing < RING_BUFFER_SIZE
    /\ lkOp' = LkRecord("pipe_write_bytes", p)
    /\ lkRing' = lkRing + Min2(RING_BUFFER_SIZE - lkRing, lkLeft[p])
    /\ lkLeft' = [lkLeft EXCEPT ![p] = @ - Min2(RING_BUFFER_SIZE - lkRing, @)]
    /\ lkOwner' = drop_guard(lkOwner, RingLock)
    /\ lkPc' = [lkPc EXCEPT ![p] = IF lkLeft[p] < RING_BUFFER_SIZE - lkRing
                                   THEN "user" ELSE "pipe_write_lock"]
    /\ UNCHANGED <<lkWriteOpen, lkCur, lkQueue, lkStatus, lkHang>>

\* sys_close of the write end by its last holder: the PCB lock is taken and
\* dropped inside the call.
LkCloseWriteEnd(p) ==
    /\ LkAt(p, "sys_close")
    /\ lkOp' = LkRecord("sys_close", p)
    /\ IF lkOwner[PcbLock(p)] # NoPid
       THEN /\ lkHang' = TRUE
            /\ UNCHANGED <<lkWriteOpen, lkPc>>
       ELSE /\ lkWriteOpen' = FALSE
            /\ lkPc' = [lkPc EXCEPT ![p] = "user"]
            /\ UNCHANGED lkHang
    /\ UNCHANGED <<lkLeft, lkRing, lkOwner, lkCur, lkQueue, lkStatus>>

\* The children of p that are still in its list: process 2 is the child of
\* process 1 until it is reaped.
LkChildren(p) == IF p = 1 /\ lkStatus[2] # "Reaped" THEN {2} ELSE {}

\* sys_waitpid_blocking: the first task.acquire_inner_lock().
WaitAcquire(p) ==
    LkAt(p, "sys_waitpid") /\ LkAcquire("sys_waitpid", p, PcbLock(p), "wait_children")

\* sys_waitpid_blocking: no child returns -1 after drop(inner); else the guard
\* is dropped at the end of the block.
WaitChildren(p) ==
    /\ LkAt(p, "wait_children")
    /\ LkDrop("wait_children", p, PcbLock(p),
              IF LkChildren(p) = {} THEN "user" ELSE "wait_loop")

\* sys_waitpid_blocking: task.acquire_inner_lock() at the top of the loop.
WaitLoopAcquire(p) ==
    LkAt(p, "wait_loop") /\ LkAcquire("wait_loop", p, PcbLock(p), "wait_find")

\* sys_waitpid_blocking: the search for a zombie child takes the PCB lock of
\* each child for the test.  A zombie is removed and the call returns; with
\* none, the loop goes on to drop(inner).
WaitFind(p) ==
    /\ LkAt(p, "wait_find")
    /\ lkOp' = LkRecord("wait_find", p)
    /\ IF \E c \in LkChildren(p) : lkOwner[PcbLock(c)] # NoPid
       THEN /\ lkHang' = TRUE
            /\ UNCHANGED <<lkPc, lkOwner, lkStatus>>
       ELSE IF \E c \in LkChildren(p) : lkStatus[c] = "Zombie"
       THEN /\ lkStatus' = [c \in LkPids |->
                              IF c \in LkChildren(p) /\ lkStatus[c] = "Zombie"
                              THEN "Reaped" ELSE lkStatus[c]]
            /\ lkOwner' = drop_guard(lkOwner, PcbLock(p))
            /\ lkPc' = [lkPc EXCEPT ![p] = "user"]
            /\ UNCHANGED lkHang
       ELSE /\ lkPc' = [lkPc EXCEPT ![p] = "wait_drop"]
            /\ UNCHANGED <<lkOwner, lkStatus, lkHang>>
    /\ UNCHANGED <<lkLeft, lkRing, lkWriteOpen, lkCur, lkQueue>>

\* sys_waitpid_blocking: drop(inner).
WaitDrop(p) ==
    LkAt(p, "wait_drop") /\ LkDrop("wait_drop", p, PcbLock(p), "wait_suspend")

\* sys_waitpid_blocking: suspend_current_and_run_next(); continue.
WaitSuspend(p) ==
    LkAt(p, "wait_suspend") /\ LkSuspend("wait_suspend", p, "wait_loop")

\* exit of the child: it becomes a zombie and the CPU returns to the idle loop.
LkExit(p) ==
    /\ LkAt(p, "sys_exit")
    /\ lkOp' = LkRecord("exit", p)
    /\ IF lkOwner[PcbLock(p)] # NoPid
       THEN /\ lkHang' = TRUE
            /\ UNCHANGED <<lkStatus, lkCur>>
       ELSE /\ lkStatus' = [lkStatus EXCEPT ![p] = "Zombie"]
            /\ lkCur' = NoPid
            /\ UNCHANGED lkHang
    /\ UNCHANGED <<lkPc, lkLeft, lkRing, lkWriteOpen, lkOwner, lkQueue>>

\* The system calls a process may enter: those of the parent, and exit for
\* the child.
LkCalls(p) ==
    {"sys_yield", "sys_read", "sys_write", "sys_waitpid"}
    \cup (IF p = 2 THEN {"sys_exit"} ELSE {})
    \cup (IF lkWriteOpen THEN {"sys_close"} ELSE {})

InitLock ==
    /\ lkPc = [p \in LkPids |-> "user"]
    /\ lkLeft = [p \in LkPids |-> 0]
    /\ lkRing = 0
    /\ lkWriteOpen = TRUE
    /\ lkOwner = [l \in LkLocks |-> NoPid]
    /\ lkCur = NoPid
    /\ lkQueue = <<1, 2>>
    /\ lkStatus = [p \in LkPids |-> "Ready"]
    /\ lkHang = FALSE
    /\ lkOp = [op |-> "none"]

NextLock ==
    \/ LkRun /\ UNCHANGED exceptLock
    \/ \E p \in LkPids, len \in LkLens :
          \E pc \in LkCalls(p) : LkSyscall(p, pc, len) /\ UNCHANGED exceptLock
    \/ \E p \in LkPids : LkYield(p) /\ UNCHANGED exceptLock
    \/ \E p \in LkPids : LkTimer(p) /\ UNCHANGED exceptLock
    \/ \E p \in LkPids : SysReadAcquire(p) /\ UNCHANGED exceptLock
    \/ \E p \in LkPids, file \in LkFiles : SysReadFd(p, file) /\ UNCHANGED exceptLock
    \/ \E p \in LkPids : PipeReadLock(p) /\ UNCHANGED exceptLock
    \/ \E p \in LkPids : PipeReadClosed(p) /\ UNCHANGED exceptLock
    \/ \E p \in LkPids : PipeReadDrop(p) /\ UNCHANGED exceptLock
    \/ \E p \in LkPids : PipeReadSuspend(p) /\ UNCHANGED exceptLock
    \/ \E p \in LkPids : PipeReadBytes(p) /\ UNCHANGED exceptLock
    \/ \E p \in LkPids, c \in {0, 1} : StdinGetchar(p, c) /\ UNCHANGED exceptLock
    \/ \E p \in LkPids : StdinSuspend(p) /\ UNCHANGED exceptLock
    \/ \E p \in LkPids : SysWriteAcquire(p) /\ UNCHANGED exceptLock
    \/ \E p \in LkPids, file \in {"none", "pipe"} : SysWriteFd(p, file) /\ UNCHANGED exceptLock
    \/ \E p \in LkPids : PipeWriteLock(p) /\ UNCHANGED exceptLock
    \/ \E p \in LkPids : PipeWriteDrop(p) /\ UNCHANGED exceptLock
    \/ \E p \in LkPids : PipeWriteSuspend(p) /\ UNCHANGED exceptLock
    \/ \E p \in LkPids : PipeWriteBytes(p) /\ UNCHANGED exceptLock
    \/ \E p \in LkPids : LkCloseWriteEnd(p) /\ UNCHANGED exceptLock
    \/ \E p \in LkPids : WaitAcquire(p) /\ UNCHANGED exceptLock
    \/ \E p \in LkPids : WaitChildren(p) /\ UNCHANGED exceptLock
    \/ \E p \in LkPids : WaitLoopAcquire(p) /\ UNCHANGED exceptLock
    \/ \E p \in LkPids : WaitFind(p) /\ UNCHANGED exceptLock
    \/ \E p \in LkPids : WaitDrop(p) /\ UNCHANGED exceptLock
    \/ \E p \in LkPids : WaitSuspend(p) /\ UNCHANGED exceptLock
    \/ \E p \in LkPids : LkExit(p) /\ UNCHANGED exceptLock

-----------------------------------------------------------------------------
(*   Cache entries held during the file-system operations                  *)
(*   (easy-fs/src/vfs.rs, layout.rs, efs.rs, bitmap.rs, block_cache.rs)    *)
(*                                                                         *)
(* Every get_block_cache(id).lock().read/modify(0, |b| body) holds the     *)
(* entry of the block from the call to the end of the statement, body      *)
(* included.  An operation is the sequence of the get_block_cache calls    *)
(* and drops it makes, in the order and nesting of the code; the sizes of  *)
(* the root directory and of a file decide which index blocks are walked.  *)
(* A block is named by its kind.                                           *)

\* BLOCK_CACHE_SIZE of the source.  The nesting of the holds does not shrink
\* with the layout, so the bound is kept at its value.
BLOCK_CACHE_SIZE_SRC == 16
\* Bytes of a directory entry (32 in the source, 16 entries per block).
DIRENT_SZ == 4
\* Most directory entries of the root directory.
MaxDirents == 9
\* Most blocks of a bitmap that an alloc scans.
MaxBitmapScan == 2

HoldGet(kind) == [e |-> "get", b |-> kind]
HoldEnd == [e |-> "drop", b |-> "none"]

\* get_block_cache(kind).lock().read/modify(0, |b| body)
HoldWhile(kind, body) == <<HoldGet(kind)>> \o body \o <<HoldEnd>>

RECURSIVE Repeat(_, _)
Repeat(trace, n) == IF n <= 0 THEN <<>> ELSE trace \o Repeat(trace, n - 1)

\* The Arc of a hold that is never dropped.
drop_handle_kept(held) == held

\* The Arc returned by get_block_cache is dropped at the end of the
\* statement.
drop_handle(held) == Front(held)

get_block_id_trace(inner_id) ==
    IF inner_id < INODE_DIRECT_COUNT THEN <<>>
    ELSE IF inner_id < INDIRECT1_BOUND THEN HoldWhile("indirect1", <<>>)
    ELSE HoldWhile("indirect2", <<>>) \o HoldWhile("indirect1", <<>>)

\* DiskInode::read_at and DiskInode::write_at over the blocks first..last.
RECURSIVE DiskInodeRwTrace(_, _)
DiskInodeRwTrace(first, last) ==
    IF first > last THEN <<>>
    ELSE get_block_id_trace(first) \o HoldWhile("data", <<>>)
         \o DiskInodeRwTrace(first + 1, last)

\* Bitmap::alloc that finds its bit in block number scan - 1 of the bitmap.
Bitmap_alloc_trace(scan) == Repeat(HoldWhile("bitmap", <<>>), scan)
Bitmap_dealloc_trace == HoldWhile("bitmap", <<>>)
dealloc_data_trace == HoldWhile("data", <<>>) \o Bitmap_dealloc_trace

\* DiskInode::increase_size from old_size to new_size.
increase_size_trace(old_size, new_size) ==
    The({ IF tot <= INODE_DIRECT_COUNT THEN <<>>
          ELSE The({ HoldWhile("indirect1", <<>>)
                     \o (IF tot1 <= INODE_INDIRECT1_COUNT THEN <<>>
                         ELSE HoldWhile("indirect2",
                                Repeat(HoldWhile("indirect1", <<>>),
                                       (tot1 - INODE_INDIRECT1_COUNT)
                                       - (Max2(cur1, INODE_INDIRECT1_COUNT) - INODE_INDIRECT1_COUNT))))
                     : cur1 \in {Max2(cur, INODE_DIRECT_COUNT) - INODE_DIRECT_COUNT},
                       tot1 \in {tot - INODE_DIRECT_COUNT} })
          : cur \in {data_blocks(old_size)}, tot \in {data_blocks(new_size)} })

\* DiskInode::clear_size of a file of size bytes.
clear_size_trace(size) ==
    The({ IF db <= INODE_DIRECT_COUNT THEN <<>>
          ELSE HoldWhile("indirect1", <<>>)
               \o (IF db <= INDIRECT1_BOUND THEN <<>>
                   ELSE The({ HoldWhile("indirect2",
                                Repeat(HoldWhile("indirect1", <<>>),
                                       (db2 \div INODE_INDIRECT1_COUNT)
                                       + (IF db2 % INODE_INDIRECT1_COUNT > 0 THEN 1 ELSE 0)))
                              : db2 \in {db - INDIRECT1_BOUND} }))
          : db \in {data_blocks(size)} })

\* Inode::increase_size: blocks_num_needed calls of alloc_data, then
\* DiskInode::increase_size.
InodeIncreaseSizeTrace(old_size, new_size, scan) ==
    IF new_size < old_size THEN <<>>
    ELSE Repeat(Bitmap_alloc_trace(scan), blocks_num_needed([size |-> old_size], new_size))
         \o increase_size_trace(old_size, new_size)

\* find_inode_id that reads the directory entries first..last.
RECURSIVE find_inode_id_trace(_, _)
find_inode_id_trace(first, last) ==
    IF first > last THEN <<>>
    ELSE DiskInodeRwTrace((first * DIRENT_SZ) \div BLOCK_SZ, (first * DIRENT_SZ) \div BLOCK_SZ)
         \o find_inode_id_trace(first + 1, last)

\* An operation begins: none is under way.
HoldIdle == ~hdHalt /\ hdTrace = <<>>

HoldBegin(name, trace, root_size, file_size) ==
    /\ hdOp' = name
    /\ hdTrace' = trace
    /\ hdRootSize' = root_size
    /\ hdFileSize' = file_size
    /\ UNCHANGED <<hdHeld, hdHalt>>

\* Inode::find of a name that is entry number hit of the root directory, or
\* of a name that is not there (hit = number of entries).
HoldFind(hit) ==
    /\ HoldIdle
    /\ hit \in 0..(hdRootSize \div DIRENT_SZ)
    /\ HoldBegin("find",
                 HoldWhile("inode",
                     find_inode_id_trace(0, Min2(hit, hdRootSize \div DIRENT_SZ - 1))),
                 hdRootSize, hdFileSize)

\* Inode::ls.
HoldLs ==
    /\ HoldIdle
    /\ HoldBegin("ls",
                 HoldWhile("inode", find_inode_id_trace(0, hdRootSize \div DIRENT_SZ - 1)),
                 hdRootSize, hdFileSize)

\* Inode::create of a name that is entry number hit of the root directory
\* (None is returned after the search), or of a new name.
HoldCreate(hit, scan) ==
    /\ HoldIdle
    /\ hit \in 0..(hdRootSize \div DIRENT_SZ)
    /\ hit = hdRootSize \div DIRENT_SZ => hit < MaxDirents
    /\ IF hit < hdRootSize \div DIRENT_SZ
       THEN HoldBegin("create",
                      HoldWhile("inode", find_inode_id_trace(0, hit)),
                      hdRootSize, hdFileSize)
       ELSE HoldBegin("create",
                      HoldWhile("inode", find_inode_id_trace(0, hit - 1))
                      \o Bitmap_alloc_trace(scan)
                      \o HoldWhile("inode", <<>>)
                      \o HoldWhile("inode",
                             InodeIncreaseSizeTrace(hdRootSize, hdRootSize + DIRENT_SZ, scan)
                             \o DiskInodeRwTrace((hit * DIRENT_SZ) \div BLOCK_SZ,
                                                 (hit * DIRENT_SZ) \div BLOCK_SZ)),
                      hdRootSize + DIRENT_SZ, hdFileSize)

\* Inode::read_at of the blocks first..last of the file.
HoldReadAt(first, last) ==
    /\ HoldIdle
    /\ hdRootSize > 0
    /\ first <= last
    /\ HoldBegin("read_at",
                 HoldWhile("inode",
                     DiskInodeRwTrace(first, Min2(last, data_blocks(hdFileSize) - 1))),
                 hdRootSize, hdFileSize)

\* Inode::write_at of the blocks first..last of the file, which grows to
\* hold them.
HoldWriteAt(first, last, scan) ==
    /\ HoldIdle
    /\ hdRootSize > 0
    /\ first <= last
    /\ HoldBegin("write_at",
                 HoldWhile("inode",
                     InodeIncreaseSizeTrace(hdFileSize, (last + 1) * BLOCK_SZ, scan)
                     \o DiskInodeRwTrace(first, last)),
                 hdRootSize, Max2(hdFileSize, (last + 1) * BLOCK_SZ))

\* Inode::clear of the file.
HoldClear ==
    /\ HoldIdle
    /\ hdRootSize > 0
    /\ HoldBegin("clear",
                 HoldWhile("inode",
                     clear_size_trace(hdFileSize)
                     \o Repeat(dealloc_data_trace, total_blocks(hdFileSize))),
                 hdRootSize, 0)

\* Bitmap::alloc and Bitmap::dealloc called on their own.
HoldBitmapAlloc(scan) ==
    HoldIdle /\ HoldBegin("alloc", Bitmap_alloc_trace(scan), hdRootSize, hdFileSize)
HoldBitmapDealloc ==
    HoldIdle /\ HoldBegin("dealloc", Bitmap_dealloc_trace, hdRootSize, hdFileSize)

\* The next get_block_cache of the operation.  With BLOCK_CACHE_SIZE entries
\* held, a block that is not cached finds the queue full of entries whose
\* strong count is above 1: the manager panics.
HoldGetBlockCache ==
    /\ ~hdHalt
    /\ hdTrace # <<>>
    /\ Head(hdTrace).e = "get"
    /\ IF Len(hdHeld) >= BLOCK_CACHE_SIZE_SRC
       THEN /\ hdHalt' = TRUE
            /\ UNCHANGED <<hdTrace, hdHeld>>
       ELSE /\ hdHeld' = Append(hdHeld, Head(hdTrace).b)
            /\ hdTrace' = Tail(hdTrace)
            /\ UNCHANGED hdHalt
    /\ UNCHANGED <<hdOp, hdRootSize, hdFileSize>>

\* The end of the statement of the innermost hold.
HoldDrop ==
    /\ ~hdHalt
    /\ hdTrace # <<>>
    /\ Head(hdTrace).e = "drop"
    /\ hdHeld' = drop_handle(hdHeld)
    /\ hdTrace' = Tail(hdTrace)
    /\ UNCHANGED <<hdOp, hdRootSize, hdFileSize, hdHalt>>

InitHold ==
    /\ hdTrace = <<>>
    /\ hdHeld = <<>>
    /\ hdRootSize = 0
    /\ hdFileSize = 0
    /\ hdHalt = FALSE
    /\ hdOp = "none"

NextHold ==
    \/ \E hit \in 0..MaxDirents : HoldFind(hit) /\ UNCHANGED exceptHold
    \/ HoldLs /\ UNCHANGED exceptHold
    \/ \E hit \in 0..MaxDirents, scan \in 1..MaxBitmapScan :
          HoldCreate(hit, scan) /\ UNCHANGED exceptHold
    \/ \E first, last \in 0..(INDIRECT2_BOUND - 1) :
          HoldReadAt(first, last) /\ UNCHANGED exceptHold
    \/ \E first, last \in 0..(INDIRECT2_BOUND - 1), scan \in 1..MaxBitmapScan :
          HoldWriteAt(first, last, scan) /\ UNCHANGED exceptHold
    \/ HoldClear /\ UNCHANGED exceptHold
    \/ \E scan \in 1..MaxBitmapScan : HoldBitmapAlloc(scan) /\ UNCHANGED exceptHold
    \/ HoldBitmapDealloc /\ UNCHANGED exceptHold
    \/ HoldGetBlockCache /\ UNCHANGED exceptHold
    \/ HoldDrop /\ UNCHANGED exceptHold

-----------------------------------------------------------------------------
InitMM ==
    /\ spaces = [s \in SpaceIds |-> NoSpace]
    /\ nwrites = 0
    /\ ncreated = 0
    /\ mmOp = [op |-> "none"]

vars == <<frameVars, mmVars, pipeVars, cacheVars, fsVars, linkVars, mailVars, fdVars, waitVars, bufVars, schedVars, bitmapVars, lockVars, holdVars>>

Init == InitFrame /\ InitMM /\ InitPipe /\ InitCache /\ InitFS /\ InitLink /\ InitMail /\ InitFd /\ InitWait /\ InitBuf /\ InitSched /\ InitBitmap /\ InitLock /\ InitHold

SpecFrame == Init /\ [][NextFrame]_vars
SpecMM == Init /\ [][NextMM]_vars
SpecAS == Init /\ [][NextAS]_vars
SpecElf == Init /\ [][NextElf]_vars
SpecPipe == Init /\ [][NextPipe]_vars
SpecCache == Init /\ [][NextCache]_vars
SpecEvict == Init /\ [][NextEvict]_vars
SpecFS == Init /\ [][NextFS]_vars
SpecLink == Init /\ [][NextLink]_vars
SpecMail == Init /\ [][NextMail]_vars
SpecFd == Init /\ [][NextFd]_vars
SpecWait == Init /\ [][NextWait]_vars
\* The buffer system calls are checked from every page table over BufVpns.
InitAnyTables ==
    /\ InitFrame /\ InitMM /\ InitPipe /\ InitCache /\ InitFS /\ InitLink
    /\ InitMail /\ InitFd /\ InitWait /\ InitBufTables /\ InitSched /\ InitBitmap /\ InitLock /\ InitHold
SpecBuf == InitAnyTables /\ [][NextBuf]_vars
SpecSched == Init /\ [][NextSched]_vars
SpecBitmap == Init /\ [][NextBitmap]_vars
SpecLock == Init /\ [][NextLock]_vars
SpecHold == Init /\ [][NextHold]_vars

\* The whole kernel: the parts act in any order.
Next == NextFrame \/ NextMM \/ NextAS \/ NextElf \/ NextPipe \/ NextCache \/ NextEvict \/ NextFS \/ NextLink \/ NextMail \/ NextFd \/ NextWait \/ NextBuf \/ NextSched \/ NextBitmap \/ NextLock \/ NextHold
Spec == Init /\ [][Next]_vars
\* The scheduler is round-robin: a process that suspended in Pipe::read is run
\* again.
SpecPipeFair ==
    /\ Init /\ [][NextPipe]_vars
    /\ \A p \in PipeProcs : WF_vars(ResumeRead(p) /\ UNCHANGED exceptPipe)

-----------------------------------------------------------------------------
(* C2: no frame number is held by two live FrameTrackers at the same time, *)
(* and a frame handed out by frame_alloc was not held by any live tracker  *)
(* when it was handed out.                                                 *)
C2_NoFrameHeldTwice ==
    /\ NoDup(v)
    /\ (frameOp.op = "alloc" /\ frameOp.ppn # NoFrame) => frameOp.ppn \notin frameOp.heldBefore

\* A recycled frame has been handed out again while other frames are held.
C2_Witness ==
    /\ frameOp.op = "alloc" /\ frameOp.ppn # NoFrame /\ frameOp.reused
    /\ Len(v) >= 2

(* C3: every frame returned by frame_alloc is entirely zero at the moment  *)
(* it is returned, also a recycled frame that held non-zero data.          *)
C3_AllocatedFrameIsZero ==
    (frameOp.op = "alloc" /\ frameOp.ppn # NoFrame) => mem[frameOp.ppn] = ZeroPage

\* A recycled frame that still held its previous owner's data was returned.
C3_Witness ==
    /\ frameOp.op = "alloc" /\ frameOp.ppn # NoFrame
    /\ frameOp.reused /\ frameOp.wasDirty

(* C1: right after B = from_existed_user(A) every page mapped in an area of *)
(* A is mapped in B with the same flags and the same content, in a frame   *)
(* of its own; the data frames of two live address spaces are always       *)
(* disjoint; and a store to a page of one address space leaves what every  *)
(* other address space reads unchanged.                                    *)
DataFrames(ms) ==
    {PtePpn(translate(mem, ms.page_table, vpn)) : vpn \in MappedVpns(ms)}

C1_CloneIsIsolatedCopy ==
    /\ mmOp.op = "fork" =>
          LET A == spaces[mmOp.a]
              B == spaces[mmOp.b]
          IN \A vpn \in MappedVpns(A) :
                LET pa == translate(mem, A.page_table, vpn)
                    pb == translate(mem, B.page_table, vpn)
                IN /\ vpn \in MappedVpns(B)
                   /\ pb # NoPte /\ IsValid(pb)
                   /\ PteFlags(pb) = PteFlags(pa)
                   /\ PtePpn(pb) # PtePpn(pa)
                   /\ mem[PtePpn(pb)] = mem[PtePpn(pa)]
    /\ \A s, t \in Live : s # t => DataFrames(spaces[s]) \cap DataFrames(spaces[t]) = {}
    /\ mmOp.op = "write" =>
          \A t \in DOMAIN mmOp.before :
              spaces[t] # NoSpace /\ View(mem, spaces[t]) = mmOp.before[t]

\* A clone was just made of an address space one of whose pages is not zero.
C1_Witness ==
    /\ mmOp.op = "fork"
    /\ \E vpn \in MappedVpns(spaces[mmOp.a]) :
          View(mem, spaces[mmOp.a])[vpn] # ZeroPage

(* C4: the bytes readers have taken out of the pipe are a prefix of the     *)
(* bytes accepted by writes, and the bytes still in the ring are exactly    *)
(* the rest of them, in order: nothing is lost, duplicated or reordered,    *)
(* whatever the interleaving, the suspensions and the wrap-around.          *)
RingContents(rb) ==
    [k \in 1..available_read(rb) |-> rb.arr[(rb.head + k - 1) % RING_BUFFER_SIZE]]

C4_ReadsArePrefixOfWrites ==
    /\ Len(got) <= nwritten
    /\ \A i \in 1..Len(got) : got[i] = i % 256
    /\ RingContents(ring) = [k \in 1..(nwritten - Len(got)) |-> (Len(got) + k) % 256]

\* A read that had suspended returns bytes written after the ring wrapped.
C4_Witness ==
    /\ pipeOp.op = "read" /\ pipeOp.suspended /\ pipeOp.ret > 0
    /\ Len(got) > RING_BUFFER_SIZE

(* C5: a write of n <= 32 bytes on an empty pipe returns without waiting    *)
(* for a reader, a read never waits once the n bytes it asked for are in    *)
(* its buffer (no further write or close is needed), and a write of more    *)
(* than 32 bytes returns only after it has suspended.                       *)
C5_WriteThenReadNeedNoOtherCall ==
    /\ \A p \in PipeProcs :
          call[p].kind = "write" => ~(call[p].startEmpty /\ call[p].len <= RING_BUFFER_SIZE)
    /\ \A p \in PipeProcs :
          call[p].kind = "read" => call[p].done < call[p].len
    /\ (pipeOp.op = "write" /\ pipeOp.len > RING_BUFFER_SIZE) => pipeOp.suspended

(* C6: a read returns fewer bytes than its buffer holds only when every     *)
(* write end is closed and the pipe is drained (so it returns all k bytes   *)
(* written); while a write end is open such a reader keeps yielding; and    *)
(* once every write end is closed, a reader in a call eventually returns.   *)
C6_Safety ==
    (pipeOp.op = "read" /\ pipeOp.ret < pipeOp.len) =>
        /\ pipeOp.closed
        /\ Len(got) = nwritten

C6_ReaderReturnsAfterClose ==
    /\ []C6_Safety
    /\ \A p \in PipeProcs :
          (call[p].kind = "read" /\ WriteStrong = 0) ~> (call[p] = NoCall)

\* A reader with a 32-byte buffer that had suspended returns 13 after the
\* write ends were closed.
C6_Witness ==
    /\ pipeOp.op = "read" /\ pipeOp.suspended /\ pipeOp.closed
    /\ pipeOp.len = RING_BUFFER_SIZE /\ pipeOp.ret = 13

(* C7: every read of a block through the cache returns what the plain map  *)
(* holds for it (the last value modified, or the device's initial content); *)
(* at any time the cached copy of a block, or the device's copy if it is    *)
(* not cached, is the plain map's value; and a block has one cache entry.   *)
Effective(b) ==
    IF FindBlock(queue, b, 1) > 0 THEN queue[FindBlock(queue, b, 1)].cache ELSE dev[b]

C7_CacheBehavesLikeMap ==
    /\ cacheOp.op = "read" => cacheOp.val = cacheOp.expected
    /\ \A b \in Blocks : Effective(b) = plain[b]
    /\ \A i, j \in 1..Len(queue) : i # j => queue[i].id # queue[j].id
    /\ Len(queue) <= BLOCK_CACHE_SIZE

\* A read misses a full cache, evicts an entry and loads a block whose
\* modified copy an earlier eviction had written back to the device.
C7_Witness ==
    /\ cacheOp.op = "read" /\ cacheOp.miss /\ cacheOp.full
    /\ cacheOp.val # 0

-----------------------------------------------------------------------------
(* C8: after Inode::write_at(offset, buf) returns buf.len(), the size of   *)
(* the file is max(previous size, offset + buf.len()); read_at(offset,     *)
(* out) returns min(out.len(), size - offset) bytes, each equal to the     *)
(* byte last written at its position, and returns 0 at an offset >= size.  *)
C8_WriteThenReadAt ==
    /\ (fsOp.op = "write" /\ fsOp.ret = fsOp.len)
       => inodes[fsOp.f].size = Max2(fsOp.prevSize, fsOp.offset + fsOp.len)
    /\ fsOp.op = "read"
       => /\ fsOp.ret = IF fsOp.offset >= inodes[fsOp.f].size THEN 0
                        ELSE Min2(fsOp.len, inodes[fsOp.f].size - fsOp.offset)
          /\ \A i \in 1..fsOp.ret :
                written[fsOp.f][fsOp.offset + i] # 0
                => fsOp.data[i] = written[fsOp.f][fsOp.offset + i]

\* A read that ends in the part of a file reached through the second level of
\* indexes, is cut at the size of the file, and returns written bytes only,
\* while the other file holds blocks too.
C8_Witness ==
    /\ fsOp.op = "read"
    /\ fsOp.ret > 0
    /\ fsOp.ret < fsOp.len
    /\ fsOp.offset + fsOp.ret > INDIRECT1_BOUND * BLOCK_SZ
    /\ \A i \in 1..fsOp.ret : written[fsOp.f][fsOp.offset + i] # 0
    /\ \E g \in FsFiles : g # fsOp.f /\ inodes[g].size > 0

-----------------------------------------------------------------------------
\* The blocks a DiskInode refers to: its data blocks and its index blocks.
OwnedBlocks(ino) ==
    LET db == data_blocks(ino.size)
    IN {get_block_id(ino, k, fsBlocks) : k \in 0..(db - 1)}
       \cup (IF db > INODE_DIRECT_COUNT THEN {ino.indirect1} ELSE {})
       \cup (IF db > INDIRECT1_BOUND
             THEN {ino.indirect2}
                  \cup {ReadU32(fsBlocks[ino.indirect2], a)
                        : a \in 0..((db - INDIRECT1_BOUND - 1) \div INODE_INDIRECT1_COUNT)}
             ELSE {})

(* C9: clear() of a file of size s leaves the file with size 0 and gives   *)
(* exactly total_blocks(s) blocks back to the data bitmap, each once: the  *)
(* blocks given back are distinct, were all allocated, and afterwards the  *)
(* bitmap holds the blocks of the other files and nothing else.            *)
C9_ClearFreesEveryBlockOnce ==
    fsOp.op = "clear"
    => /\ inodes[fsOp.f].size = 0
       /\ Len(fsOp.freed) = total_blocks(fsOp.prevSize)
       /\ NoDup(fsOp.freed)
       /\ \A i \in 1..Len(fsOp.freed) :
             (fsOp.freed[i] - data_area_start_block) \in fsOp.before
       /\ fsBitmap = fsOp.before
                     \ {fsOp.freed[i] - data_area_start_block : i \in 1..Len(fsOp.freed)}
       /\ fsBitmap = {b - data_area_start_block
                      : b \in UNION {OwnedBlocks(inodes[g]) : g \in FsFiles \ {fsOp.f}}}

\* A clear of a file that used both levels of indexes, while the other file
\* holds blocks.
C9_Witness ==
    /\ fsOp.op = "clear"
    /\ data_blocks(fsOp.prevSize) > INDIRECT1_BOUND + INODE_INDIRECT1_COUNT
    /\ fsBitmap # {}

-----------------------------------------------------------------------------
(* C10: link(old, new) returns -1 and changes neither the hard-link map    *)
(* nor any link count when old = new or old is not in the map; otherwise   *)
(* it returns 0, the link count shared by the file of old grows by exactly *)
(* 1, and new resolves to the same OSInode, hence the same inode, as old.  *)
C10_LinkReturnAndEffect ==
    linkOp.op = "link"
    => IF linkOp.old = linkOp.new \/ linkOp.map[linkOp.old] = NoEntry
       THEN /\ linkOp.ret = -1
            /\ linkMap = linkOp.map
            /\ nlinks = linkOp.cells
       ELSE /\ linkOp.ret = 0
            /\ nlinks[osInodes[linkOp.map[linkOp.old]].nlink]
               = linkOp.cells[osInodes[linkOp.map[linkOp.old]].nlink] + 1
            /\ linkMap[linkOp.new] = linkOp.map[linkOp.old]
            /\ linkMap[linkOp.old] = linkOp.map[linkOp.old]
            /\ osInodes[linkMap[linkOp.new]].inode = osInodes[linkMap[linkOp.old]].inode

\* A link that succeeded over a new path that held another file before.
C10_Witness ==
    /\ linkOp.op = "link"
    /\ linkOp.ret = 0
    /\ linkOp.map[linkOp.new] # NoEntry
    /\ linkOp.map[linkOp.new] # linkOp.map[linkOp.old]

-----------------------------------------------------------------------------
(* C11: after link(a, b) succeeds on a file with one link, opening a and   *)
(* opening b report the same inode number and nlink = 2; after unlink(a)   *)
(* then returns 0, b still opens, on the same inode with the same content, *)
(* and reports nlink = 1.  An open reports the inode and the count of the  *)
(* entry of its path.                                                      *)
C11_LinkedPathsShareInodeAndCount ==
    /\ (linkOp.op = "link" /\ linkOp.ret = 0
        /\ linkOp.cells[osInodes[linkOp.map[linkOp.old]].nlink] = 1)
       => /\ linkMap[linkOp.old] # NoEntry
          /\ linkMap[linkOp.new] # NoEntry
          /\ fstat(osInodes[linkMap[linkOp.old]]) = fstat(osInodes[linkMap[linkOp.new]])
          /\ fstat(osInodes[linkMap[linkOp.new]]).nlink = 2
    /\ (linkOp.op = "unlink" /\ linkOp.ret = 0
        /\ linkOp.cells[osInodes[linkOp.map[linkOp.path]].nlink] = 2)
       => \A b \in Paths \ {linkOp.path} :
             linkOp.map[b] = linkOp.map[linkOp.path]
             => /\ linkMap[b] = linkOp.map[b]
                /\ fstat(osInodes[linkMap[b]]).nlink = 1
                /\ fstat(osInodes[linkMap[b]]).ino = osInodes[linkOp.map[linkOp.path]].inode
                /\ fileSize[fstat(osInodes[linkMap[b]]).ino]
                   = linkOp.sizes[fstat(osInodes[linkMap[b]]).ino]
    /\ (linkOp.op = "open" /\ linkOp.some /\ ~HasFlag(linkOp.flags, CREATE))
       => fstat(linkOp.osInode) = fstat(osInodes[linkMap[linkOp.name]])

\* unlink(a) returned 0 on a file that had the two links a and b and holds data.
C11_Witness ==
    /\ linkOp.op = "unlink"
    /\ linkOp.ret = 0
    /\ linkOp.cells[osInodes[linkOp.map[linkOp.path]].nlink] = 2
    /\ \E b \in Paths \ {linkOp.path} :
          /\ linkOp.map[b] = linkOp.map[linkOp.path]
          /\ fileSize[osInodes[linkMap[b]].inode] > 0

-----------------------------------------------------------------------------
(* C12: unlink applied to the only remaining link of a file succeeds and   *)
(* the path stops resolving.                                               *)
C12_UnlinkOfLastLinkSucceeds ==
    (linkOp.op = "unlink" /\ linkOp.map[linkOp.path] # NoEntry
     /\ linkOp.cells[osInodes[linkOp.map[linkOp.path]].nlink] = 1)
    => (linkOp.ret = 0 /\ linkMap[linkOp.path] = NoEntry)

-----------------------------------------------------------------------------
(* C13: open_file with CREATE on an existing path truncates the file to    *)
(* size 0 and reuses its inode; with CREATE on a missing path it creates   *)
(* an empty file in the root directory and registers it under the path;    *)
(* without CREATE it opens an existing path, truncating it iff TRUNC is    *)
(* set, and fails on a missing path without creating anything.             *)
C13_OpenFileOutcome ==
    linkOp.op = "open"
    => IF HasFlag(linkOp.flags, CREATE)
       THEN IF linkOp.existed
            THEN /\ linkOp.some
                 /\ linkOp.osInode.inode = osInodes[linkOp.map[linkOp.name]].inode
                 /\ fileSize[linkOp.osInode.inode] = 0
                 /\ linkMap = linkOp.map
            ELSE /\ ~linkOp.panicked
                 /\ linkOp.some
                 /\ linkOp.name \in rootDir
                 /\ linkOp.osInode.inode \notin 1..Len(linkOp.sizes)
                 /\ fileSize[linkOp.osInode.inode] = 0
                 /\ linkMap[linkOp.name] # NoEntry
                 /\ osInodes[linkMap[linkOp.name]] = linkOp.osInode
       ELSE IF linkOp.existed
            THEN /\ linkOp.some
                 /\ linkOp.osInode.inode = osInodes[linkOp.map[linkOp.name]].inode
                 /\ fileSize[linkOp.osInode.inode]
                    = IF HasFlag(linkOp.flags, TRUNC) THEN 0
                      ELSE linkOp.sizes[linkOp.osInode.inode]
                 /\ linkMap = linkOp.map
            ELSE /\ ~linkOp.some
                 /\ linkMap = linkOp.map
                 /\ rootDir = linkOp.dir
                 /\ fileSize = linkOp.sizes

-----------------------------------------------------------------------------
(* C14: a mailbox never holds more than MAX_PACKET_NUM datagrams: a        *)
(* mail_write to a mailbox holding MAX_PACKET_NUM returns -1 and leaves it *)
(* unchanged whatever the length; a mail_write of PACKET_BUFFER_SIZE bytes *)
(* to a mailbox holding fewer returns PACKET_BUFFER_SIZE and enqueues      *)
(* exactly one datagram; and after one datagram has been read from a full  *)
(* mailbox, a write of PACKET_BUFFER_SIZE bytes returns PACKET_BUFFER_SIZE.*)
C14_MailBoxHoldsAtMostMax ==
    /\ \A p \in MailPids :
          mail_box[p] # NoMailBox
          => /\ mail_box[p].size <= MAX_PACKET_NUM
             /\ Len(mail_box[p].packets) = mail_box[p].size
    /\ (mailOp.op = "write" /\ mailOp.box.size = MAX_PACKET_NUM)
       => /\ mailOp.ret = -1
          /\ mail_box[mailOp.pid] = mailOp.box
    /\ (mailOp.op = "write" /\ mailOp.valid /\ mailOp.box.size < MAX_PACKET_NUM
        /\ Len(mailOp.buf) = PACKET_BUFFER_SIZE)
       => /\ mailOp.ret = PACKET_BUFFER_SIZE
          /\ mail_box[mailOp.pid].size = mailOp.box.size + 1
          /\ Len(mail_box[mailOp.pid].packets) = Len(mailOp.box.packets) + 1
    /\ (mailOp.op = "read" /\ mailOp.box.size = MAX_PACKET_NUM
        /\ mailOp.len > 0 /\ mailOp.ret >= 0)
       => \A user_buf \in MailWriteBufs :
             Len(user_buf) = PACKET_BUFFER_SIZE
             => MailBoxWrite(mail_box[mailOp.pid], user_buf).ret = PACKET_BUFFER_SIZE

\* A write of PACKET_BUFFER_SIZE bytes from a valid buffer to a full mailbox.
C14_Witness ==
    /\ mailOp.op = "write"
    /\ mailOp.valid
    /\ mailOp.box.size = MAX_PACKET_NUM
    /\ Len(mailOp.buf) = PACKET_BUFFER_SIZE
    /\ mailOp.ret = -1

-----------------------------------------------------------------------------
(* C15: zero-length mailbox operations are probes: a zero-length           *)
(* mail_write returns 0 iff the mailbox is not full, else -1; a mail_read  *)
(* into a zero-length buffer returns 0 iff the mailbox is not empty, else  *)
(* -1; neither changes the number or the content of the queued datagrams.  *)
C15_ZeroLengthProbes ==
    /\ (mailOp.op = "write" /\ mailOp.valid /\ mailOp.buf = <<>>)
       => /\ mailOp.ret = (IF mailOp.box.size < MAX_PACKET_NUM THEN 0 ELSE -1)
          /\ mail_box[mailOp.pid] = mailOp.box
    /\ (mailOp.op = "read" /\ mailOp.valid /\ mailOp.len = 0)
       => /\ mailOp.ret = (IF mailOp.box.size > 0 THEN 0 ELSE -1)
          /\ mail_box[mailOp.pid] = mailOp.box
          /\ mailOp.data = <<>>

\* A zero-length write to a mailbox that holds datagrams and is not full.
C15_Witness ==
    /\ mailOp.op = "write"
    /\ mailOp.valid
    /\ mailOp.buf = <<>>
    /\ mailOp.box.size > 0
    /\ mailOp.ret = 0

-----------------------------------------------------------------------------
(* C16: datagrams are read in the order they were written: a mail_read     *)
(* with a buffer of L > 0 bytes on a non-empty mailbox removes exactly the *)
(* oldest datagram, copies its first min(L, length) bytes, returns that    *)
(* count and leaves the later datagrams and their order unchanged; a write *)
(* appends, behind the others, a datagram holding the first                *)
(* min(length, PACKET_BUFFER_SIZE) bytes of the buffer.                    *)
C16_ReadTakesOldest ==
    /\ (mailOp.op = "read" /\ mailOp.valid /\ mailOp.len > 0 /\ mailOp.box.size > 0)
       => /\ mailOp.ret = Min2(mailOp.len, Head(mailOp.box.packets).len)
          /\ mailOp.data = SubSeq(Head(mailOp.box.packets).arr, 1, mailOp.ret)
          /\ mail_box[mailOp.pid].packets = Tail(mailOp.box.packets)
          /\ mail_box[mailOp.pid].size = mailOp.box.size - 1
    /\ (mailOp.op = "write" /\ mailOp.valid /\ mailOp.ret > 0)
       => /\ Front(mail_box[mailOp.pid].packets) = mailOp.box.packets
          /\ Last(mail_box[mailOp.pid].packets).len
             = Min2(Len(mailOp.buf), PACKET_BUFFER_SIZE)
          /\ mailOp.ret = Last(mail_box[mailOp.pid].packets).len
          /\ SubSeq(Last(mail_box[mailOp.pid].packets).arr, 1, mailOp.ret)
             = SubSeq(mailOp.buf, 1, mailOp.ret)

\* A read into a buffer shorter than the oldest datagram, with a different
\* datagram queued behind it.
C16_Witness ==
    /\ mailOp.op = "read"
    /\ mailOp.valid
    /\ mailOp.len > 0
    /\ mailOp.box.size >= 2
    /\ mailOp.len < Head(mailOp.box.packets).len
    /\ mailOp.box.packets[2] # Head(mailOp.box.packets)

-----------------------------------------------------------------------------
\* The number of descriptor slots, over all processes, that hold file.
SlotCount(file) ==
    Cardinality({ pi \in FdProcs \X (1..MaxFdLen) :
                    /\ pi[2] <= Len(fd_table[pi[1]])
                    /\ fd_table[pi[1]][pi[2]] = file })

(* C17: right after fork the child's descriptor table has the same         *)
(* occupied slots as the parent's, each referring to the same open file;   *)
(* a close(fd) that succeeds empties that slot of the calling process      *)
(* only, and every file a process still has a descriptor of stays alive    *)
(* (its strong count is the number of descriptors referring to it).        *)
C17_ForkSharesOpenFiles ==
    /\ fdOp.op = "fork"
       => /\ fd_table[fdOp.child] = fd_table[fdOp.pid]
          /\ fdOp.child \in fdLive
    /\ (fdOp.op = "close" /\ fdOp.ret = 0)
       => /\ fd_table[fdOp.pid] = [fdOp.tables[fdOp.pid] EXCEPT ![fdOp.fd + 1] = NoFile]
          /\ \A q \in FdProcs \ {fdOp.pid} : fd_table[q] = fdOp.tables[q]
    /\ \A file \in 1..MaxFdFiles : fileRefs[file] = SlotCount(file)

\* A process closed its descriptor of a pipe end that another process holds
\* in the same slot.
C17_Witness ==
    /\ fdOp.op = "close"
    /\ fdOp.ret = 0
    /\ fdOp.tables[fdOp.pid][fdOp.fd + 1] > 3
    /\ \E q \in fdLive \ {fdOp.pid} :
          /\ fdOp.fd < Len(fd_table[q])
          /\ fd_table[q][fdOp.fd + 1] = fdOp.tables[fdOp.pid][fdOp.fd + 1]

-----------------------------------------------------------------------------
\* fd is the smallest empty slot of table, or its length if none is empty.
IsSmallestFree(table, fd) ==
    /\ fd \in 0..Len(table)
    /\ \A g \in 0..(fd - 1) : table[g + 1] # NoFile
    /\ fd < Len(table) => table[fd + 1] = NoFile

(* C18: the descriptor that open, dup and pipe hand out is the smallest    *)
(* index whose slot is empty, or the table length (the table growing by    *)
(* one) if no slot is empty; pipe in a process holding only descriptors    *)
(* 0, 1, 2 yields read fd 3 and write fd 4; and after a close of the       *)
(* lowest closed number, that number is the next one handed out.           *)
C18_AllocFdSmallestFree ==
    /\ (fdOp.op \in {"open", "dup"} /\ fdOp.ret >= 0)
       => /\ IsSmallestFree(fdOp.table, fdOp.ret)
          /\ Len(fd_table[fdOp.pid])
             = Len(fdOp.table) + (IF fdOp.ret = Len(fdOp.table) THEN 1 ELSE 0)
          /\ fd_table[fdOp.pid][fdOp.ret + 1] # NoFile
    /\ fdOp.op = "pipe"
       => /\ IsSmallestFree(fdOp.table, fdOp.read_fd)
          /\ IsSmallestFree(fdOp.mid, fdOp.write_fd)
          /\ (Len(fdOp.table) = 3 /\ \A i \in 1..3 : fdOp.table[i] # NoFile)
             => (fdOp.read_fd = 3 /\ fdOp.write_fd = 4)
    /\ (fdOp.op = "close" /\ fdOp.ret = 0
        /\ \A g \in 0..(fdOp.fd - 1) : fd_table[fdOp.pid][g + 1] # NoFile)
       => Install(fd_table[fdOp.pid], 1).fd = fdOp.fd

\* A pipe call that took a closed descriptor below the end of the table for
\* the read end and extended the table for the write end.
C18_Witness ==
    /\ fdOp.op = "pipe"
    /\ fdOp.read_fd < Len(fdOp.table)
    /\ fdOp.write_fd = Len(fdOp.table)

-----------------------------------------------------------------------------
(* C19: waitpid(pid, ptr) with a writable ptr returns -1 iff no child of   *)
(* the caller matches pid (-1 and 0 match every child); returns -2 iff     *)
(* some child matches and no matching child is a zombie; and otherwise     *)
(* removes exactly one matching zombie child from the caller's child list, *)
(* stores that child's exit code at ptr and returns that child's pid.      *)
C19_WaitpidOutcome ==
    (waitOp.op = "waitpid" /\ waitOp.writable)
    => /\ waitOp.ret = -1
          <=> ~\E i \in 1..Len(waitOp.children) :
                  waitOp.pid \in {-1, 0, waitOp.children[i]}
       /\ waitOp.ret = -2
          <=> /\ \E i \in 1..Len(waitOp.children) :
                    waitOp.pid \in {-1, 0, waitOp.children[i]}
              /\ ~\E i \in 1..Len(waitOp.children) :
                    /\ waitOp.pid \in {-1, 0, waitOp.children[i]}
                    /\ waitOp.status[waitOp.children[i]] = "Zombie"
       /\ waitOp.ret \notin {-1, -2}
          => \E i \in 1..Len(waitOp.children) :
                /\ waitOp.children[i] = waitOp.ret
                /\ waitOp.pid \in {-1, 0, waitOp.ret}
                /\ waitOp.status[waitOp.ret] = "Zombie"
                /\ children[waitOp.caller] = RemoveAt(waitOp.children, i)
                /\ waitOp.stored = <<waitOp.codes[waitOp.ret]>>
       /\ waitOp.ret \in {-1, -2} => children[waitOp.caller] = waitOp.children

\* wait for any child with two zombie children and a running one: one zombie
\* is reaped, with a non-zero exit code.
C19_Witness ==
    /\ waitOp.op = "waitpid"
    /\ waitOp.writable
    /\ waitOp.pid = -1
    /\ waitOp.ret >= 0
    /\ waitOp.stored # <<0>>
    /\ Len(children[waitOp.caller]) = 2
    /\ \E i \in 1..2 : task_status[children[waitOp.caller][i]] = "Zombie"
    /\ \E i \in 1..2 : task_status[children[waitOp.caller][i]] = "Ready"

-----------------------------------------------------------------------------
(* C20: every wait or waitpid call of a parent (the pointer being          *)
(* writable) returns -1 or the pid of a child that had exited and that the *)
(* call reaped; in particular waitpid(cpid) on a child that is still       *)
(* running returns -1.                                                     *)
C20_WaitReturnsMinusOneOrReapedPid ==
    (waitOp.op = "waitpid" /\ waitOp.writable)
    => \/ waitOp.ret = -1
       \/ \E i \in 1..Len(waitOp.children) :
             /\ waitOp.children[i] = waitOp.ret
             /\ waitOp.status[waitOp.ret] = "Zombie"
             /\ children[waitOp.caller] = RemoveAt(waitOp.children, i)

-----------------------------------------------------------------------------
(* C21: a waitpid call that returns -1 leaves the caller's child list      *)
(* unchanged; in particular a matching zombie child stays in the list when *)
(* exit_code_ptr is not writable.                                          *)
C21_FailedWaitpidKeepsChildren ==
    (waitOp.op = "waitpid" /\ waitOp.ret = -1)
    => /\ children[waitOp.caller] = waitOp.children
       /\ task_status = waitOp.status

-----------------------------------------------------------------------------
(* C22: waitpid with exit_code_ptr = 0 and a matching zombie child reaps   *)
(* that child and returns its pid, and stores no exit code.                *)
C22_NullPointerReaps ==
    (/\ waitOp.op = "waitpid"
     /\ waitOp.ptr = 0
     /\ \E i \in 1..Len(waitOp.children) :
           /\ waitOp.pid \in {-1, 0, waitOp.children[i]}
           /\ waitOp.status[waitOp.children[i]] = "Zombie")
    => /\ waitOp.stored = <<>>
       /\ \E i \in 1..Len(waitOp.children) :
             /\ waitOp.ret = waitOp.children[i]
             /\ waitOp.status[waitOp.ret] = "Zombie"
             /\ children[waitOp.caller] = RemoveAt(waitOp.children, i)

-----------------------------------------------------------------------------
\* The pages overlapped by [ptr, ptr + len).
Overlapped(ptr, len) == { va \div PAGE_SIZE : va \in ptr..(ptr + len - 1) }

\* The entry lets user code perform the access the kernel makes on its
\* behalf: a read of the buffer for write and mail_write, a store into it for
\* read and mail_read.
UserMay(name, pte) ==
    /\ pte # NoPte
    /\ IsValid(pte)
    /\ HasFlag(pte, PTE_U)
    /\ IF name \in {"write", "mail_write"} THEN HasFlag(pte, PTE_R)
       ELSE HasFlag(pte, PTE_W)

(* C23: read, write, mail_read and mail_write return -1, copy no byte and  *)
(* do not halt the kernel whenever a page overlapped by [buf, buf + len)   *)
(* is unmapped or lacks the permission the access needs.                   *)
C23_BadBufferRejected ==
    (/\ bufOp.op \in {"write", "read", "mail_read", "mail_write"}
     /\ \E vpn \in Overlapped(bufOp.ptr, bufOp.len) : ~UserMay(bufOp.op, bufPt[vpn]))
    => /\ bufOp.ret = -1
       /\ ~bufOp.panicked
       /\ bufOp.pages = {}

-----------------------------------------------------------------------------
\* The positions of process p in the ready queue.
QueuePositions(p) == { i \in 1..Len(ready_queue) : ready_queue[i] = p }

(* C24: over dispatch, yield, timer tick, fork and exit, at most one       *)
(* process is Running, every Ready process is in the ready queue exactly   *)
(* once, and no Running or Zombie process is in the queue.                 *)
C24_ReadyQueueInvariant ==
    /\ Cardinality({ p \in SchedPids : sched_status[p] = "Running" }) <= 1
    /\ \A p \in SchedPids :
          /\ sched_status[p] = "Ready" => Cardinality(QueuePositions(p)) = 1
          /\ sched_status[p] # "Ready" => QueuePositions(p) = {}

\* A dispatch with a second process waiting in the queue and a third one dead.
C24_Witness ==
    /\ schedOp.op = "dispatch"
    /\ Len(dispatched) >= 3
    /\ \E p, q \in SchedPids :
          /\ sched_status[p] = "Ready"
          /\ sched_status[q] = "Zombie"
          /\ sched_status[schedOp.pid] = "Running"

RECURSIVE WeightedStride(_)
WeightedStride(S) ==
    IF S = {} THEN 0
    ELSE The({ task_priority[p] * task_stride[p] + WeightedStride(S \ {p})
               : p \in {CHOOSE x \in S : TRUE} })

DispatchCount(p) ==
    Cardinality({ i \in 1..Len(dispatched) : dispatched[i] = <<p, task_priority[p]>> })

(* C26: with exactly two processes, never exited, of priorities 10 and 20, *)
(* each dispatch picks the ready process of minimum stride, and the        *)
(* dispatch counts satisfy |n20 - 2 * n10| <= 2.                           *)
C26_StrideFairness ==
    \A a, b \in SchedPids :
       (/\ { p \in SchedPids : sched_status[p] # "none" } = {a, b}
        /\ sched_status[a] # "Zombie" /\ sched_status[b] # "Zombie"
        /\ task_priority[a] = 10
        /\ task_priority[b] = 20)
       => /\ schedOp.op = "dispatch"
             => \A i \in 1..Len(ready_queue) :
                   schedOp.stride <= task_stride[ready_queue[i]]
          /\ DispatchCount(b) - 2 * DispatchCount(a) <= 2
          /\ 2 * DispatchCount(a) - DispatchCount(b) <= 2

(* C27: set_priority(p) stores and returns p when p >= 2 and returns -1    *)
(* without a change when p < 2; every process has a priority >= 2, a child *)
(* has its parent's priority, and the stride step is defined.              *)
C27_PriorityAtLeastTwo ==
    /\ \A p \in SchedPids : task_priority[p] >= 2 /\ StridePass(task_priority[p]) >= 0
    /\ schedOp.op = "set_priority"
       => IF schedOp.arg >= 2
          THEN schedOp.ret = schedOp.arg /\ task_priority[schedOp.pid] = schedOp.arg
          ELSE schedOp.ret = -1 /\ task_priority[schedOp.pid] = schedOp.priority
    /\ schedOp.op = "fork" => task_priority[schedOp.ret] = task_priority[schedOp.pid]

\* A child that inherited priority 10 is refused priority 1.
C27_Witness ==
    /\ schedOp.op = "set_priority"
    /\ schedOp.arg = 1
    /\ schedOp.pid # 0
    /\ task_priority[schedOp.pid] = 10
    /\ task_priority[0] = 10

-----------------------------------------------------------------------------
\* The areas of ms whose page range holds vpn.
AreasOf(ms, vpn) ==
    { i \in 1..Len(ms.areas) : ms.areas[i].start <= vpn /\ vpn < ms.areas[i].end }

(* C28: after every operation on an address space, every page of a region  *)
(* has a valid leaf entry with the region's permissions, and every page    *)
(* outside all regions, the trampoline excepted, has no valid leaf entry.  *)
C28_RegionsMatchPageTable ==
    \A s \in Live : \A vpn \in 0..(NVpn - 1) :
       \E pte \in {translate(mem, spaces[s].page_table, vpn)} :
          /\ \A i \in AreasOf(spaces[s], vpn) :
                /\ pte # NoPte
                /\ IsValid(pte)
                /\ PteFlags(pte) = BitOr(spaces[s].areas[i].map_perm, PTE_V)
          /\ (AreasOf(spaces[s], vpn) = {} /\ vpn # TRAMPOLINE_VPN)
             => (pte = NoPte \/ ~IsValid(pte))

(* C29: translate(vpn) returns an entry only when vpn has a valid leaf     *)
(* entry; for a page never mapped, or unmapped, it returns none, whatever  *)
(* other pages share its interior tables.                                  *)
C29_TranslateOnlyValidLeaf ==
    \A s \in Live : \A vpn \in 0..(NVpn - 1) :
       translate(mem, spaces[s].page_table, vpn) # NoPte
       => IsValid(translate(mem, spaces[s].page_table, vpn))

\* The valid entries of the table node in frame ppn.
ValidEntries(ppn) ==
    { mem[ppn][i] : i \in { j \in 0..(PT_ENTRIES - 1) : IsValid(mem[ppn][j]) } }

LeafKind(bits) ==
    HasFlag(bits, PTE_R) \/ HasFlag(bits, PTE_W) \/ HasFlag(bits, PTE_X)

(* C30: in every page table built by map and the creating walk, a valid    *)
(* interior entry has R, W and X clear and a valid leaf entry has at least *)
(* one of R, W, X.                                                         *)
C30_InteriorAndLeafFlags ==
    \A s \in Live :
       \A p1 \in ValidEntries(spaces[s].page_table.root_ppn) :
          /\ ~LeafKind(PteFlags(p1))
          /\ \A p2 \in ValidEntries(PtePpn(p1)) :
                /\ ~LeafKind(PteFlags(p2))
                /\ \A p3 \in ValidEntries(PtePpn(p2)) : LeafKind(PteFlags(p3))

-----------------------------------------------------------------------------
\* The highest end page of the segments segs.
HighestEnd(segs) ==
    CHOOSE e \in { segs[i].start + segs[i].pages : i \in 1..Len(segs) } :
       \A i \in 1..Len(segs) : segs[i].start + segs[i].pages <= e

(* C31: in the address space built by from_elf, for any number and order   *)
(* of loadable segments, the user stack begins one page above the highest  *)
(* end page of the segments: it overlaps no segment and the page below it  *)
(* is an unmapped guard page.                                              *)
C31_StackAboveEverySegment ==
    mmOp.op = "from_elf_segments"
    => \E stack \in {spaces[mmOp.s].areas[Len(mmOp.segs) + 1]} :
          /\ stack.start = HighestEnd(mmOp.segs) + 1
          /\ \A i \in 1..Len(mmOp.segs) :
                stack.end <= mmOp.segs[i].start
                \/ mmOp.segs[i].start + mmOp.segs[i].pages <= stack.start
          /\ (stack.start - 1) \notin MappedVpns(spaces[mmOp.s])

-----------------------------------------------------------------------------
\* The blocks cached in q, and those of them held outside the cache.
CachedIds(q) == { q[i].id : i \in 1..Len(q) }
HeldIds(q) == { q[i].id : i \in { j \in 1..Len(q) : q[j].strong > 1 } }

(* C32: the cache never holds more than BLOCK_CACHE_SIZE entries; a miss   *)
(* on a full cache removes exactly one entry, the one nearest the head     *)
(* that nobody outside the cache holds; an entry that is held is never     *)
(* removed; and when every entry is held the kernel halts.                 *)
C32_EvictsFirstUnheld ==
    /\ Len(queue) <= BLOCK_CACHE_SIZE
    /\ cacheOp.op \in {"get", "panic"}
       => /\ HeldIds(cacheOp.before) \subseteq CachedIds(queue)
          /\ (cacheOp.b \notin CachedIds(cacheOp.before)
              /\ Len(cacheOp.before) = BLOCK_CACHE_SIZE)
             => IF HeldIds(cacheOp.before) = CachedIds(cacheOp.before)
                THEN cacheOp.op = "panic" /\ queue = cacheOp.before
                ELSE /\ cacheOp.op = "get"
                     /\ \E i \in 1..Len(cacheOp.before) :
                           /\ cacheOp.before[i].strong = 1
                           /\ \A j \in 1..(i - 1) : cacheOp.before[j].strong > 1
                           /\ Front(queue) = RemoveAt(cacheOp.before, i)
                           /\ Last(queue).id = cacheOp.b
          /\ cacheOp.op = "panic"
             => /\ cacheOp.b \notin CachedIds(cacheOp.before)
                /\ Len(cacheOp.before) = BLOCK_CACHE_SIZE
                /\ HeldIds(cacheOp.before) = CachedIds(cacheOp.before)

\* A miss on a full cache whose head is held: the second entry is evicted.
C32_Witness ==
    /\ cacheOp.op = "get"
    /\ Len(cacheOp.before) = BLOCK_CACHE_SIZE
    /\ cacheOp.b \notin CachedIds(cacheOp.before)
    /\ cacheOp.before[1].strong > 1
    /\ queue[1] = cacheOp.before[1]

-----------------------------------------------------------------------------
(* C35: after any sequence of increase_size and clear_size calls, every    *)
(* logical block index below ceil(size / BLOCK_SZ) of every file resolves  *)
(* through get_block_id to a block number that is not zero and that        *)
(* alloc_data handed to increase_size (its bit is set in the data bitmap), *)
(* and two different indices of a file resolve to different blocks.        *)
C35_IndexResolvesToOwnBlock ==
    \A f \in FsFiles :
        \A i \in 0..(data_blocks(inodes[f].size) - 1) :
            \E b \in {get_block_id(inodes[f], i, fsBlocks)} :
                /\ b # 0
                /\ b \in FsBlockIds
                /\ (b - data_area_start_block) \in fsBitmap
                /\ \A j \in 0..(i - 1) : get_block_id(inodes[f], j, fsBlocks) # b

\* The last of four calls grows a file from the middle of a row of the second
\* level to the full capacity.
C35_Witness ==
    /\ fsOp.op = "write"
    /\ data_blocks(fsOp.prevSize) > INDIRECT1_BOUND
    /\ (data_blocks(fsOp.prevSize) - INDIRECT1_BOUND) % INODE_INDIRECT1_COUNT # 0
    /\ data_blocks(inodes[fsOp.f].size) = INDIRECT2_BOUND
    /\ nfsops = MaxFsOps

-----------------------------------------------------------------------------
\* How many times the index tree of a DiskInode refers to block b: as a data
\* block, as its indirect1 or indirect2 block, or as an index block of the
\* second level.
RefCount(ino, b) ==
    LET db == data_blocks(ino.size)
    IN Cardinality({k \in 0..(db - 1) : get_block_id(ino, k, fsBlocks) = b})
       + (IF db > INODE_DIRECT_COUNT /\ ino.indirect1 = b THEN 1 ELSE 0)
       + (IF db > INDIRECT1_BOUND
          THEN (IF ino.indirect2 = b THEN 1 ELSE 0)
               + Cardinality({a \in 0..((db - INDIRECT1_BOUND - 1) \div INODE_INDIRECT1_COUNT)
                              : ReadU32(fsBlocks[ino.indirect2], a) = b})
          ELSE 0)

(* C36: a write_at that grows a file from size s to size t allocates       *)
(* total_blocks(t) - total_blocks(s) fresh blocks, the number              *)
(* blocks_num_needed returns, and increase_size puts each of them into the *)
(* index tree exactly once, as a data block or as an index block; the call *)
(* completes without asking the vector for more.                           *)
C36_FreshBlocksUsedOnce ==
    fsOp.op = "write"
    => /\ Cardinality(fsOp.fresh)
          = total_blocks(inodes[fsOp.f].size) - total_blocks(fsOp.prevSize)
       /\ \A b \in fsOp.fresh : RefCount(inodes[fsOp.f], b) = 1
       /\ Cardinality({b \in FsBlockIds : RefCount(inodes[fsOp.f], b) > 0})
          = total_blocks(inodes[fsOp.f].size)

\* A growth that starts in the direct range and ends in the second level: it
\* crosses both boundaries and allocates both kinds of index blocks.
C36_Witness ==
    /\ fsOp.op = "write"
    /\ fsOp.prevSize > 0
    /\ data_blocks(fsOp.prevSize) <= INODE_DIRECT_COUNT
    /\ data_blocks(inodes[fsOp.f].size) > INDIRECT1_BOUND
    /\ Cardinality(fsOp.fresh) > data_blocks(inodes[fsOp.f].size) - data_blocks(fsOp.prevSize)

-----------------------------------------------------------------------------
(* C40: after any sequence of write_at and clear calls on the files of one *)
(* file system (create grows the root directory through the same           *)
(* increase_size and write_at), no block is referenced by the index trees  *)
(* of two inodes or twice by one, and the bit of every referenced block is *)
(* set in the data bitmap.                                                 *)
C40_BlocksReferencedOnce ==
    \A b \in FsBlockIds :
        /\ \A f \in FsFiles : RefCount(inodes[f], b) <= 1
        /\ \A f, g \in FsFiles :
              (f # g /\ RefCount(inodes[f], b) > 0) => RefCount(inodes[g], b) = 0
        /\ (\E f \in FsFiles : RefCount(inodes[f], b) > 0)
           => (b - data_area_start_block) \in fsBitmap

\* The last of four calls writes to a file that uses the second level of
\* indexes while the other file holds blocks as well.
C40_Witness ==
    /\ fsOp.op = "write"
    /\ nfsops = MaxFsOps
    /\ data_blocks(inodes[fsOp.f].size) > INDIRECT1_BOUND
    /\ \E g \in FsFiles : g # fsOp.f /\ inodes[g].size > 0

-----------------------------------------------------------------------------
(* C37: Bitmap::alloc returns the smallest bit that is clear, sets that    *)
(* bit and no other, and returns none exactly when every bit is set, so a  *)
(* bit is not returned again before it is deallocated; dealloc(bit) clears *)
(* that bit and no other, and panics when the bit was not set.             *)
C37_AllocSmallestClearBit ==
    /\ bmOp.op = "alloc"
       => /\ bmOp.bit = NoBit
             <=> bmOp.before = 0..(Bitmap_maximum(Len(data_bitmap)) - 1)
          /\ bmOp.bit = NoBit => SetBits(data_bitmap) = bmOp.before
          /\ bmOp.bit # NoBit
             => /\ bmOp.bit \in 0..(Bitmap_maximum(Len(data_bitmap)) - 1)
                /\ bmOp.bit \notin bmOp.before
                /\ \A c \in 0..(bmOp.bit - 1) : c \in bmOp.before
                /\ SetBits(data_bitmap) = bmOp.before \cup {bmOp.bit}
    /\ bmOp.op = "dealloc"
       => IF bmOp.bit \in bmOp.before
          THEN bmOk /\ SetBits(data_bitmap) = bmOp.before \ {bmOp.bit}
          ELSE ~bmOk /\ SetBits(data_bitmap) = bmOp.before

\* An allocation in the second block of the bitmap that fills a hole left by a
\* dealloc, with higher bits still set.
C37_Witness ==
    /\ bmOp.op = "alloc"
    /\ bmOp.bit > BLOCK_BITS
    /\ \E c \in bmOp.before : c > bmOp.bit

(* C38: every block id alloc_data returns lies in the data area:           *)
(* data_area_start_block <= id < total_blocks, for every layout create     *)
(* produces and any number of earlier allocations.                         *)
C38_AllocDataInsideDataArea ==
    (bmOp.op = "alloc" /\ bmOp.bit # NoBit)
    => /\ efs.data_area_start_block <= bmOp.id
       /\ bmOp.id < efs.total_blocks

-----------------------------------------------------------------------------
(* C39: whenever unlink(path) returns 0, path is no longer in the          *)
(* hard-link map afterwards, whatever number of links the file had, and    *)
(* the link count of the file equals the number of paths of the map that   *)
(* still refer to it.                                                      *)
C39_UnlinkRemovesPath ==
    (linkOp.op = "unlink" /\ linkOp.ret = 0)
    => \E e \in {osInodes[linkOp.map[linkOp.path]]} :
          /\ linkMap[linkOp.path] = NoEntry
          /\ nlinks[e.nlink]
             = Cardinality({p \in Paths : /\ linkMap[p] # NoEntry
                                          /\ osInodes[linkMap[p]].inode = e.inode})

-----------------------------------------------------------------------------
\* C34: at every point where a system call suspends its caller (a pipe read
\* on an empty ring, a pipe write on a full ring, a read of stdin, the
\* blocking waitpid, yield) the caller owns neither its PCB lock nor the
\* ring-buffer lock of the pipe; hence no lock is owned by a process that is
\* off the CPU, and no acquire spins on a lock for ever.
LkSuspendOps ==
    {"pipe_read_suspend", "pipe_write_suspend", "stdin_suspend", "wait_suspend", "yield"}

C34_NoLockHeldAtSuspend ==
    /\ lkOp.op \in LkSuspendOps => lkOp.held = {}
    /\ \A l \in LkLocks : lkOwner[l] # NoPid => lkOwner[l] = lkCur
    /\ ~lkHang

\* A reader suspended in Pipe::read on an empty ring while the other process
\* holds the ring lock inside Pipe::write.
C34_Witness ==
    /\ lkPc[1] = "pipe_read_lock"
    /\ lkStatus[1] = "Ready"
    /\ lkCur = 2
    /\ lkPc[2] = "pipe_write_loop"
    /\ lkOwner[RingLock] = 2
    /\ lkRing = 0
    /\ ~lkHang

-----------------------------------------------------------------------------
\* C33: over every sequence of create, find, ls, read_at, write_at (growing a
\* file through the direct, the single-indirect and the double-indirect
\* range), clear, and bitmap alloc and dealloc, fewer than 16 cache entries
\* are held at every get_block_cache call, so the manager never halts with
\* 'Run out of BlockCache'.
C33_HeldBelowCacheSize ==
    /\ ~hdHalt
    /\ (hdTrace # <<>> /\ Head(hdTrace).e = "get") => Len(hdHeld) < BLOCK_CACHE_SIZE_SRC

\* The deepest nesting: write_at grows the file inside the double-indirect
\* range; the inode block and the indirect2 block are held and the entry of
\* an indirect1 block has just been taken.
C33_Witness ==
    /\ hdOp = "write_at"
    /\ hdHeld = <<"inode", "indirect2", "indirect1">>
    /\ data_blocks(hdFileSize) = INDIRECT2_BOUND
    /\ hdRootSize \div DIRENT_SZ = MaxDirents
    /\ ~hdHalt
====
